---- MODULE Spec2Model ----
(***************************************************************************)
(* Model of the provisioning engine of Anthias fleet manager.              *)
(*                                                                         *)
(*   players/provision.py        ProvisionTask, _update_step, _append_log, *)
(*                               provision_player (the orchestrator)       *)
(*   players/provision_views.py  provision_create, provision_retry         *)
(*   players/models.py           Player                                    *)
(*                                                                         *)
(* The database tables are the variables tasks and players.  A worker      *)
(* execution of provision_player holds its own in-memory copy of the task  *)
(* row (run[w].task); save(update_fields=...) copies only the named fields *)
(* of that copy into the row.  An action is the code between two blocking  *)
(* calls (a remote command, a connect, a sleep): the database writes that  *)
(* follow a blocking call belong to its action.  The three writes of the   *)
(* failure handler are separate actions.                                   *)
(*                                                                         *)
(* Texts.  Ledger messages and error texts are the strings of the source;  *)
(* values interpolated from the device (command output, exception detail)  *)
(* are left out of them unless stated.  A log line is a record: the run    *)
(* that wrote it, the step it was written in, and the exception text it    *)
(* carries ("" for an informational line).  Consecutive equal lines are    *)
(* kept once, so the log of a polling loop does not depend on the number   *)
(* of its iterations.  Timestamps are not modelled.                        *)
(*                                                                         *)
(* Specifications.  Spec: one request, its execution, an external actor    *)
(* that marks the running row failed, and retries requested once the       *)
(* failed execution has returned.  SpecRetryRace: retries accepted while   *)
(* the failed execution is still in its except clause, followed through    *)
(* step 2.  SpecTwoRuns: two executions for one device at the device       *)
(* lookup.  SpecLedger: _update_step alone.                                *)
(***************************************************************************)
EXTENDS Integers, Sequences, FiniteSets, TLC

VARIABLES
    tasks,      \* table ProvisionTask: sequence of rows, id = index
    players,    \* table Player: sequence of rows, id = index
    queue,      \* task queue: invocations of provision_player waiting for a worker
    run,        \* per worker: the execution of provision_player it is in
    nStarted,   \* executions started so far (names the run in log lines)
    cancels,    \* external "mark failed" writes so far: for each, whether a
                \* ledger entry was running (a step was executing) when it was made
    nRetry,     \* accepted retry requests so far
    harness,    \* SpecLedger only: the task object the calls act on, and the number of calls
    bulks,      \* table BulkProvisionTask: sequence of rows, id = index
    bulkq       \* invocations of bulk_provision_task, each with its position

vars == <<tasks, players, queue, run, nStarted, cancels, nRetry, harness, bulks, bulkq>>

---------------------------------------------------------------------------
(* Bounds of the model *)

MaxCancels == 1
MaxRetries == 1

(* Program constants *)

TotalSteps == 12
PortWaitProbes == 12
MaxSshAttempts == 5
ReconnectAttempts == 3
ReadyProbes == 24
ErrFieldLen == 1000
StepMsgLen == 200

ssh_delays == <<5, 10, 15, 20, 25>>

Workers == {1, 2}

NoPlayer == 0

---------------------------------------------------------------------------
(* Texts *)

Blk50 == "0123456789012345678901234567890123456789012345678#"
Blk200 == Blk50 \o Blk50 \o Blk50 \o Blk50
Blk1200 == Blk200 \o Blk200 \o Blk200 \o Blk200 \o Blk200 \o Blk200

E_unreachable == "Host is unreachable. Check that the device is powered on, connected to the network, and SSH is enabled."
E_auth == "SSH authentication failed for user. Check username and password."
E_conn_other == "SSH connection failed: error"
E_conn_timeout == "SSH connection timed out after 5 attempts. The device may still be booting or SSH service is not running."
E_conn_refused == "SSH connection refused on port 22. SSH server may not be enabled on the device."
E_conn_failed == "SSH connection failed after 5 attempts: error"
E_arch == "Unsupported architecture: armv6l. Expected aarch64 or armv7l."
E_cmd_timeout == "SSH command timed out: "
E_cmd_failed == "Command failed (exit 1): stderr"
E_cmd_failed_long == "Command failed (exit 1): " \o Blk1200
E_internet == "No internet connection. Check network settings."
E_reconnect == "SSH reconnect failed after docker install: error"
E_sftp == "Failure"
E_ready == "Player API did not become ready within 2 minutes."
E_integrity == "UNIQUE constraint failed: players_player.url"

TsAuthKey == "tskey-auth-k7Q2"
TailscaleUpCmd == "sudo tailscale up --authkey='" \o TsAuthKey \o "'"

\* str(e)[:n]
Truncate(s, n) == IF Len(s) <= n THEN s ELSE SubSeq(s, 1, n)

---------------------------------------------------------------------------
(* ProvisionTask rows and the step ledger *)

StepName(n) ==
    CASE n = 1 -> "ssh_connect"
      [] n = 2 -> "prerequisites"
      [] n = 3 -> "install_docker"
      [] n = 4 -> "create_dirs"
      [] n = 5 -> "upload_compose"
      [] n = 6 -> "upload_configs"
      [] n = 7 -> "docker_pull"
      [] n = 8 -> "docker_up"
      [] n = 9 -> "wait_ready"
      [] n = 10 -> "phonehome"
      [] n = 11 -> "tailscale"
      [] OTHER -> "silent_boot"

\* the message of the success entry of step k (lines 258, 279, 342, 357, 383,
\* 439, 475, 490, 516, 610, 657, 703)
DoneMessage(k) ==
    CASE k = 1 -> "Connected"
      [] k = 2 -> "Prerequisites OK"
      [] k = 3 -> "Docker installed"
      [] k = 4 -> "Directories created"
      [] k = 5 -> "docker-compose.yml uploaded"
      [] k = 6 -> "Configs uploaded"
      [] k = 7 -> "All 7 images pulled"
      [] k = 8 -> "Containers started"
      [] k = 9 -> "Player is ready"
      [] k = 10 -> "Phone-home installed"
      [] k = 11 -> "Tailscale: "
      [] OTHER -> "Silent boot configured"

\* ProvisionTask.objects.create(ip_address=..., player_name=...): the field defaults
NewTask(ip, name) ==
    [ip_address |-> ip, player_name |-> name, status |-> "pending",
     current_step |-> 0, total_steps |-> TotalSteps, steps |-> <<>>,
     error_message |-> "", log_output |-> <<>>, player |-> NoPlayer]

NoTask == NewTask("", "")

\* task.save(update_fields=fields): the named fields of the in-memory object
\* replace those of the row
SaveFields(row, mem, fields) ==
    [f \in DOMAIN row |-> IF f \in fields THEN mem[f] ELSE row[f]]

StepEntry(step_num, name, status, message) ==
    [step |-> step_num, name |-> name, status |-> status, message |-> message]

\* index of the first entry of the ledger with this step number, 0 if none
FindStep(steps, step_num) ==
    IF \E i \in 1..Len(steps) : steps[i].step = step_num
    THEN CHOOSE i \in 1..Len(steps) :
            /\ steps[i].step = step_num
            /\ \A j \in 1..(i - 1) : steps[j].step # step_num
    ELSE 0

\* a slip of the upsert: the entry is always appended
UpsertAppendOnly(steps, entry) == Append(steps, entry)

\* replace the existing entry of the step, or append
Upsert(steps, entry) ==
    LET i == FindStep(steps, entry.step)
    IN  IF i = 0 THEN Append(steps, entry) ELSE [steps EXCEPT ![i] = entry]

\* _update_step on the in-memory object; it saves steps and current_step
UpdateStep(t, step_num, name, status, message) ==
    [t EXCEPT !.steps = Upsert(@, StepEntry(step_num, name, status, message)),
              !.current_step = step_num]

StepFields == {"steps", "current_step"}

LogLine(rid, step, text) == [run |-> rid, step |-> step, text |-> text]

\* _append_log on the in-memory object; it saves log_output
AppendLog(t, rid, text) ==
    LET line == LogLine(rid, t.current_step, text)
    IN  IF Len(t.log_output) > 0 /\ t.log_output[Len(t.log_output)] = line
        THEN t
        ELSE [t EXCEPT !.log_output = Append(@, line)]

LogFields == {"log_output"}

---------------------------------------------------------------------------
(* The remote command runner *)

CmdOutcomes == {"ok", "nonzero", "nonzero_long", "timeout"}
ProbeOutcomes == {"ok", "nonzero", "timeout"}

\* _ssh_run without line 99: the timeout is raised with the channel left open
ssh_runLeavesChannel(cmd, o, check) ==
    IF o = "timeout"
    THEN [raised |-> TRUE, err |-> E_cmd_timeout \o Truncate(cmd, 100), rc |-> -1,
          channel |-> "open"]
    ELSE IF check /\ o # "ok"
    THEN [raised |-> TRUE,
          err |-> IF o = "nonzero_long" THEN E_cmd_failed_long ELSE E_cmd_failed,
          rc |-> 1, channel |-> "open"]
    ELSE [raised |-> FALSE, err |-> "", rc |-> IF o = "ok" THEN 0 ELSE 1,
          channel |-> "open"]

\* _ssh_run(ssh, cmd, check=check) when the remote side answers o: raised is
\* whether it raises RuntimeError, err the text of str(e), rc the exit code,
\* channel the state of the command's channel when the call ends (line 99
\* closes it before line 100 raises; no other path closes it)
ssh_run(cmd, o, check) ==
    IF o = "timeout"
    THEN [raised |-> TRUE, err |-> E_cmd_timeout \o Truncate(cmd, 100), rc |-> -1,
          channel |-> "closed"]
    ELSE IF check /\ o # "ok"
    THEN [raised |-> TRUE,
          err |-> IF o = "nonzero_long" THEN E_cmd_failed_long ELSE E_cmd_failed,
          rc |-> 1, channel |-> "open"]
    ELSE [raised |-> FALSE, err |-> "", rc |-> IF o = "ok" THEN 0 ELSE 1,
          channel |-> "open"]

---------------------------------------------------------------------------
(* Worker executions of provision_player *)

Idle ==
    [pc |-> "idle", tid |-> 0, rid |-> 0, fm |-> "", task |-> NoTask,
     ssh |-> "none", sftp |-> "none",
     attempt |-> 0, nconn |-> 0, slept |-> <<>>, last_error |-> "none",
     err |-> "", errstep |-> 0, exit |-> "none", rejected |-> FALSE,
     device_type |-> "", host_mac |-> "", tailscale_ip |-> "",
     installed |-> FALSE, script_rc |-> 0,
     fresh |-> FALSE, k |-> 0, idx |-> 0, found |-> NoPlayer]

\* the execution w goes on as r2, its task object becomes t2 and the fields
\* saved in this action are copied to the row
Exec(w, r2, t2, fields) ==
    /\ run' = [run EXCEPT ![w] = [r2 EXCEPT !.task = t2]]
    /\ tasks' = [tasks EXCEPT ![run[w].tid] = SaveFields(@, t2, fields)]

\* the step of the ledger entry that is running in the task object, 0 if none
RunningStep(t) ==
    IF \E i \in 1..Len(t.steps) : t.steps[i].status = "running"
    THEN t.steps[CHOOSE i \in 1..Len(t.steps) : t.steps[i].status = "running"].step
    ELSE 0

\* the execution raises e: control passes to the except clause (errstep
\* records the ledger entry that was running at the raise)
Raise(r, e) == [r EXCEPT !.pc = "h_save", !.err = e, !.errstep = RunningStep(r.task)]

\* lines 144-146: a worker takes the next invocation, reads the row and
\* saves status = running
StartRun(w) ==
    /\ run[w].pc = "idle"
    /\ \A v \in Workers : v < w => run[v].pc # "idle"
    /\ queue # <<>>
    /\ LET inv == Head(queue)
           t == [tasks[inv.tid] EXCEPT !.status = "running"]
       IN  /\ run' = [run EXCEPT ![w] =
                        [Idle EXCEPT !.pc = "s1_begin", !.tid = inv.tid,
                                     !.rid = nStarted + 1, !.fm = inv.fm,
                                     !.task = t]]
           /\ tasks' = [tasks EXCEPT ![inv.tid] = SaveFields(@, t, {"status"})]
    /\ queue' = Tail(queue)
    /\ nStarted' = nStarted + 1
    /\ UNCHANGED <<players, cancels, nRetry, harness, bulks, bulkq>>

\* lines 153-154
S1Begin(w) ==
    /\ run[w].pc = "s1_begin"
    /\ LET r == run[w]
           t1 == UpdateStep(r.task, 1, "ssh_connect", "running", "Connecting via SSH...")
           t2 == AppendLog(t1, r.rid, "")
       IN  Exec(w, [r EXCEPT !.pc = "s1_port"], t2, StepFields \cup LogFields)
    /\ UNCHANGED <<players, queue, nStarted, cancels, nRetry, harness, bulks, bulkq>>

\* lines 165-167 and 182-189: the first TCP probe of the SSH port
S1Port(w) ==
    /\ run[w].pc = "s1_port"
    /\ \E open \in BOOLEAN :
        LET r == run[w]
        IN  IF open
            THEN Exec(w, [r EXCEPT !.pc = "s1_connect", !.ssh = "new", !.attempt = 1],
                      r.task, {})
            ELSE LET t1 == AppendLog(r.task, r.rid, "")
                     t2 == UpdateStep(t1, 1, "ssh_connect", "running",
                                      "Waiting for host to come online...")
                 IN  Exec(w, [r EXCEPT !.pc = "s1_wait", !.attempt = 0], t2,
                          StepFields \cup LogFields)
    /\ UNCHANGED <<players, queue, nStarted, cancels, nRetry, harness, bulks, bulkq>>

\* the wait loop without its bound: after the last probe it starts over
S1WaitForever(w) ==
    /\ run[w].pc = "s1_wait"
    /\ \E open \in BOOLEAN :
        LET r == run[w]
        IN  IF open
            THEN Exec(w, [r EXCEPT !.pc = "s1_connect", !.ssh = "new", !.attempt = 1],
                      AppendLog(r.task, r.rid, ""), LogFields)
            ELSE IF r.attempt + 1 < PortWaitProbes
            THEN Exec(w, [r EXCEPT !.attempt = @ + 1], r.task, {})
            ELSE Exec(w, [r EXCEPT !.attempt = 0], r.task, {})
    /\ UNCHANGED <<players, queue, nStarted, cancels, nRetry, harness, bulks, bulkq>>

\* the wait loop with a thirteenth probe
S1WaitThirteen(w) ==
    /\ run[w].pc = "s1_wait"
    /\ \E open \in BOOLEAN :
        LET r == run[w]
        IN  IF open
            THEN Exec(w, [r EXCEPT !.pc = "s1_connect", !.ssh = "new", !.attempt = 1],
                      AppendLog(r.task, r.rid, ""), LogFields)
            ELSE IF r.attempt < PortWaitProbes
            THEN Exec(w, [r EXCEPT !.attempt = @ + 1], r.task, {})
            ELSE Exec(w, Raise([r EXCEPT !.attempt = 0], E_unreachable), r.task, {})
    /\ UNCHANGED <<players, queue, nStarted, cancels, nRetry, harness, bulks, bulkq>>

\* lines 170-180: one iteration of the wait loop (attempt is wait_i), and the
\* raise after the last one
S1Wait(w) ==
    /\ run[w].pc = "s1_wait"
    /\ \E open \in BOOLEAN :
        LET r == run[w]
        IN  IF open
            THEN Exec(w, [r EXCEPT !.pc = "s1_connect", !.ssh = "new", !.attempt = 1],
                      AppendLog(r.task, r.rid, ""), LogFields)
            ELSE IF r.attempt + 1 < PortWaitProbes
            THEN Exec(w, [r EXCEPT !.attempt = @ + 1], r.task, {})
            ELSE Exec(w, Raise([r EXCEPT !.attempt = 0], E_unreachable), r.task, {})
    /\ UNCHANGED <<players, queue, nStarted, cancels, nRetry, harness, bulks, bulkq>>

ConnectOutcomes == {"ok", "auth", "timeout", "refused", "sshexc", "other"}
RetryableConnect == {"timeout", "refused", "sshexc"}

\* lines 225-240: the text raised for the last error of the connect loop
ClassifyConnectError(last_error) ==
    IF last_error = "timeout" THEN E_conn_timeout
    ELSE IF last_error = "refused" THEN E_conn_refused
    ELSE E_conn_failed

\* a loop that runs once more than max_ssh_attempts
ConnectDispositionSixth(o, attempt) ==
    IF o = "ok" THEN "connected"
    ELSE IF o = "auth" THEN "fatal_auth"
    ELSE IF o \in RetryableConnect
    THEN (IF attempt <= MaxSshAttempts THEN "retry" ELSE "exhausted")
    ELSE "fatal"

\* lines 189-223: what the connect loop does with the outcome o of its
\* attempt-th ssh.connect
ConnectDisposition(o, attempt) ==
    IF o = "ok" THEN "connected"
    ELSE IF o = "auth" THEN "fatal_auth"
    ELSE IF o \in RetryableConnect
    THEN (IF attempt < MaxSshAttempts THEN "retry" ELSE "exhausted")
    ELSE "fatal"

\* lines 189-240: one ssh.connect of the connect loop with its except clauses,
\* and the classification after the loop (nconn counts the calls of
\* ssh.connect, slept lists the delays slept, rejected tells that a call was
\* rejected for authentication)
S1Connect(w) ==
    /\ run[w].pc = "s1_connect"
    /\ \E o \in ConnectOutcomes :
        LET r == [run[w] EXCEPT !.nconn = @ + 1, !.rejected = @ \/ (o = "auth")]
            d == ConnectDisposition(o, r.attempt)
        IN  CASE d = "connected" ->
                    Exec(w, [r EXCEPT !.pc = "s1_uname", !.ssh = "open",
                                      !.last_error = "none"], r.task, {})
              [] d = "fatal_auth" -> Exec(w, Raise(r, E_auth), r.task, {})
              [] d = "fatal" -> Exec(w, Raise(r, E_conn_other), r.task, {})
              [] d = "retry" ->
                    LET t1 == AppendLog(r.task, r.rid, "")
                        t2 == UpdateStep(t1, 1, "ssh_connect", "running", "SSH retry")
                    IN  Exec(w, [r EXCEPT !.attempt = @ + 1, !.last_error = o,
                                          !.slept = Append(@, ssh_delays[r.attempt])],
                             t2, StepFields \cup LogFields)
              [] OTHER ->
                    Exec(w, Raise([r EXCEPT !.last_error = o], ClassifyConnectError(o)),
                         r.task, {})
    /\ UNCHANGED <<players, queue, nStarted, cancels, nRetry, harness, bulks, bulkq>>

ArchOutputs == {"aarch64", "armv7l", "armv6l"}

\* line 245
SupportedArch(arch) == arch \in {"aarch64", "armv7l"}

\* lines 242-246: uname -m
S1Uname(w) ==
    /\ run[w].pc = "s1_uname"
    /\ \E o \in CmdOutcomes, arch \in ArchOutputs :
        LET r == run[w]
            res == ssh_run("uname -m", o, TRUE)
            t1 == AppendLog(r.task, r.rid, "")
        IN  IF res.raised
            THEN Exec(w, Raise(r, res.err), r.task, {})
            ELSE IF ~SupportedArch(arch)
            THEN Exec(w, Raise(r, E_arch), t1, LogFields)
            ELSE Exec(w, [r EXCEPT !.pc = "s1_model"], t1, LogFields)
    /\ UNCHANGED <<players, queue, nStarted, cancels, nRetry, harness, bulks, bulkq>>

DeviceModels == {"Raspberry Pi 4", "Raspberry Pi 5", "other"}

\* lines 250-256
DeviceType(model_str) == IF model_str = "Raspberry Pi 5" THEN "pi5" ELSE "pi4"

\* lines 249-258: the model probe and the end of step 1
S1Model(w) ==
    /\ run[w].pc = "s1_model"
    /\ \E o \in ProbeOutcomes, m \in DeviceModels :
        LET r == run[w]
            res == ssh_run("cat /proc/device-tree/model", o, FALSE)
            t1 == AppendLog(r.task, r.rid, "")
            t2 == UpdateStep(t1, 1, "ssh_connect", "success", DoneMessage(1))
        IN  IF res.raised
            THEN Exec(w, Raise(r, res.err), r.task, {})
            ELSE Exec(w, [r EXCEPT !.pc = "begin", !.k = 2,
                                   !.device_type = DeviceType(IF o = "ok" THEN m ELSE "other"),
                                   !.attempt = 0, !.nconn = 0, !.slept = <<>>],
                      t2, StepFields \cup LogFields)
    /\ UNCHANGED <<players, queue, nStarted, cancels, nRetry, harness, bulks, bulkq>>

---------------------------------------------------------------------------
(* The except and finally clauses *)

\* lines 760-763: re-read the row, save status and error_message
HSave(w) ==
    /\ run[w].pc = "h_save"
    /\ LET r == run[w]
           t == [tasks[r.tid] EXCEPT !.status = "failed",
                                     !.error_message = Truncate(r.err, ErrFieldLen)]
       IN  Exec(w, [r EXCEPT !.pc = "h_log"], t, {"status", "error_message"})
    /\ UNCHANGED <<players, queue, nStarted, cancels, nRetry, harness, bulks, bulkq>>

\* line 764
HLog(w) ==
    /\ run[w].pc = "h_log"
    /\ LET r == run[w]
       IN  Exec(w, [r EXCEPT !.pc = "h_step"],
                AppendLog(r.task, r.rid, "ERROR: " \o r.err), LogFields)
    /\ UNCHANGED <<players, queue, nStarted, cancels, nRetry, harness, bulks, bulkq>>

\* lines 767-773: the last ledger entry, if running, is rewritten to failed
MarkLastFailed(t, e) ==
    IF t.steps # <<>> /\ t.steps[Len(t.steps)].status = "running"
    THEN UpdateStep(t, t.steps[Len(t.steps)].step, t.steps[Len(t.steps)].name,
                    "failed", Truncate(e, StepMsgLen))
    ELSE t

HStep(w) ==
    /\ run[w].pc = "h_step"
    /\ LET r == run[w]
           t == MarkLastFailed(r.task, r.err)
       IN  Exec(w, [r EXCEPT !.pc = "finally", !.exit = "error"], t,
                IF t = r.task THEN {} ELSE StepFields)
    /\ UNCHANGED <<players, queue, nStarted, cancels, nRetry, harness, bulks, bulkq>>

\* lines 775-785
Finally(w) ==
    /\ run[w].pc = "finally"
    /\ LET r == run[w]
       IN  run' = [run EXCEPT ![w] =
                    [r EXCEPT !.pc = "done",
                              !.sftp = IF @ = "open" THEN "closed" ELSE @,
                              !.ssh = IF @ \in {"new", "open"} THEN "closed" ELSE @]]
    /\ UNCHANGED <<tasks, players, queue, nStarted, cancels, nRetry, harness, bulks, bulkq>>

\* the celery task has returned: the worker is free again
WorkerReturn(w) ==
    /\ run[w].pc = "done"
    /\ run' = [run EXCEPT ![w] = Idle]
    /\ UNCHANGED <<tasks, players, queue, nStarted, cancels, nRetry, harness, bulks, bulkq>>

---------------------------------------------------------------------------
(* Steps 2 to 12 *)

BeginMessage(k) ==
    CASE k = 2 -> "Checking disk space..."
      [] k = 3 -> "Installing Docker..."
      [] k = 4 -> "Creating directories..."
      [] k = 5 -> "Uploading docker-compose.yml..."
      [] k = 6 -> "Uploading configs..."
      [] k = 7 -> "Pulling Docker images..."
      [] k = 8 -> "Starting containers..."
      [] k = 9 -> "Waiting for player API..."
      [] k = 10 -> "Installing phone-home..."
      [] k = 11 -> "Installing Tailscale..."
      [] OTHER -> "Configuring silent boot..."

BodyPc(k) ==
    CASE k = 2 -> "s2_df"
      [] k = 3 -> "s3_which"
      [] k = 4 -> "s4_mkdir"
      [] k = 5 -> "s5_mac"
      [] k = 6 -> "s6_upload"
      [] k = 7 -> "s7_check"
      [] k = 8 -> "s8_up"
      [] k = 9 -> "s9_probe"
      [] k = 10 -> "s10_phonehome"
      [] k = 11 -> "s11_tailscale"
      [] OTHER -> "s12_write"

\* the check of the step boundary (line 262 and its copies)
Cancelled(t) == t.status = "failed"

\* lines 261-265 and their copies before steps 3 to 12: re-read the row, return
\* if it was marked failed, else open the ledger entry of step k
StepBegin(w) ==
    /\ run[w].pc = "begin"
    /\ LET r == run[w]
           t0 == tasks[r.tid]
           t1 == UpdateStep(t0, r.k, StepName(r.k), "running", BeginMessage(r.k))
           t2 == AppendLog(t1, r.rid, "")
       IN  IF Cancelled(t0)
           THEN Exec(w, [r EXCEPT !.pc = "finally", !.exit = "return"], t0, {})
           ELSE Exec(w, [r EXCEPT !.pc = BodyPc(r.k), !.idx = IF r.k = 7 THEN 1 ELSE 0],
                     t2, StepFields \cup LogFields)
    /\ UNCHANGED <<players, queue, nStarted, cancels, nRetry, harness, bulks, bulkq>>

\* a call of _ssh_run at pc inside a try block: the execution goes on with
\* Ok(r, rc), or with Caught(r, e) when the call raises
CmdTry(w, pc, cmd, check, Ok(_, _), Caught(_, _)) ==
    /\ run[w].pc = pc
    /\ \E o \in (IF check THEN CmdOutcomes ELSE ProbeOutcomes) :
        LET r == run[w]
            res == ssh_run(cmd, o, check)
        IN  IF res.raised THEN Caught(r, res.err) ELSE Ok(r, res.rc)
    /\ UNCHANGED <<players, queue, nStarted, cancels, nRetry, harness, bulks, bulkq>>

\* a call of _ssh_run at pc: what it raises reaches the except clause of the
\* function
Cmd(w, pc, cmd, check, Ok(_, _)) ==
    CmdTry(w, pc, cmd, check, Ok, LAMBDA r, e : Exec(w, Raise(r, e), r.task, {}))

\* the execution logs a line and goes to pc
LogGoto(w, r, pc) ==
    Exec(w, [r EXCEPT !.pc = pc], AppendLog(r.task, r.rid, ""), LogFields)

\* the execution logs a line, closes the ledger entry of step k and goes to
\* the boundary of step k + 1
EndStep(w, r, k) ==
    LET t1 == AppendLog(r.task, r.rid, "")
        t2 == UpdateStep(t1, k, StepName(k), "success", DoneMessage(k))
    IN  Exec(w, [r EXCEPT !.pc = "begin", !.k = k + 1, !.attempt = 0, !.idx = 0,
                          !.fresh = FALSE],
             t2, StepFields \cup LogFields)

\* lines 267-268
S2Df(w) ==
    Cmd(w, "s2_df", "df -BG / | tail -1", TRUE, LAMBDA r, rc : LogGoto(w, r, "s2_curl"))

\* lines 271-272 and 277-279
S2Curl(w) ==
    Cmd(w, "s2_curl", "curl -sf --max-time 10 https://download.docker.com", FALSE,
        LAMBDA r, rc :
            IF rc # 0
            THEN Exec(w, [r EXCEPT !.pc = "s2_ping"], r.task, {})
            ELSE EndStep(w, r, 2))

\* lines 273-276 and 279
S2Ping(w) ==
    Cmd(w, "s2_ping", "ping -c 1 -W 5 8.8.8.8", FALSE,
        LAMBDA r, rc :
            IF rc # 0
            THEN Exec(w, Raise(r, E_internet), r.task, {})
            ELSE EndStep(w, r, 2))

\* lines 288-291 and 298-299
S3Which(w) ==
    Cmd(w, "s3_which", "command -v docker", FALSE,
        LAMBDA r, rc :
            LogGoto(w, [r EXCEPT !.fresh = FALSE],
                    IF rc = 0 THEN "s3_compose" ELSE "s3_install"))

\* lines 293-295
S3Compose(w) ==
    Cmd(w, "s3_compose", "docker compose version", FALSE,
        LAMBDA r, rc :
            IF rc # 0
            THEN LogGoto(w, r, "s3_plugin")
            ELSE Exec(w, [r EXCEPT !.pc = "s3_version"], r.task, {}))

\* lines 296-297
S3Plugin(w) ==
    Cmd(w, "s3_plugin", "sudo apt-get install -y -qq docker-compose-plugin", TRUE,
        LAMBDA r, rc : Exec(w, [r EXCEPT !.pc = "s3_version"], r.task, {}))

\* lines 300-305
S3Install(w) ==
    Cmd(w, "s3_install", "curl -fsSL https://get.docker.com | sh", TRUE,
        LAMBDA r, rc : LogGoto(w, r, "s3_usermod"))

\* lines 306-308
S3Usermod(w) ==
    Cmd(w, "s3_usermod", "sudo usermod -aG docker pi", TRUE,
        LAMBDA r, rc : Exec(w, [r EXCEPT !.pc = "s3_version", !.fresh = TRUE], r.task, {}))

\* the same step without line 319: the client is replaced while its session is
\* still open
S3VersionDropsSession(w) ==
    Cmd(w, "s3_version", "docker --version", TRUE,
        LAMBDA r, rc :
            IF r.fresh
            THEN LogGoto(w, [r EXCEPT !.ssh = "new", !.attempt = 1], "s3_reconnect")
            ELSE EndStep(w, r, 3))

\* lines 310-319 and 342: after a fresh install the file-transfer handle, if
\* any, and the session are closed
S3Version(w) ==
    Cmd(w, "s3_version", "docker --version", TRUE,
        LAMBDA r, rc :
            IF r.fresh
            THEN LogGoto(w, [r EXCEPT !.ssh = "closed", !.attempt = 1,
                                      !.sftp = IF @ = "open" THEN "closed" ELSE @],
                         "s3_reconnect")
            ELSE EndStep(w, r, 3))

\* the same loop raising only after a fourth failed attempt
S3ReconnectFourth(w) ==
    /\ run[w].pc = "s3_reconnect"
    /\ \E ok \in BOOLEAN :
        LET r == [run[w] EXCEPT !.ssh = "new"]
        IN  IF ok
            THEN EndStep(w, [r EXCEPT !.ssh = "open"], 3)
            ELSE IF r.attempt = ReconnectAttempts + 1
            THEN Exec(w, Raise(r, E_reconnect), r.task, {})
            ELSE LogGoto(w, [r EXCEPT !.attempt = @ + 1], "s3_reconnect")
    /\ UNCHANGED <<players, queue, nStarted, cancels, nRetry, harness, bulks, bulkq>>

\* lines 321-342: the new client (made before the first attempt) and one
\* ssh.connect of the reconnect loop
S3Reconnect(w) ==
    /\ run[w].pc = "s3_reconnect"
    /\ \E ok \in BOOLEAN :
        LET r == [run[w] EXCEPT !.ssh = "new"]
        IN  IF ok
            THEN EndStep(w, [r EXCEPT !.ssh = "open"], 3)
            ELSE IF r.attempt = ReconnectAttempts
            THEN Exec(w, Raise(r, E_reconnect), r.task, {})
            ELSE LogGoto(w, [r EXCEPT !.attempt = @ + 1], "s3_reconnect")
    /\ UNCHANGED <<players, queue, nStarted, cancels, nRetry, harness, bulks, bulkq>>

\* line 352
S4Mkdir(w) ==
    Cmd(w, "s4_mkdir", "sudo mkdir -p screenly .screenly screenly_assets", TRUE,
        LAMBDA r, rc : Exec(w, [r EXCEPT !.pc = "s4_chown"], r.task, {}))

\* line 353
S4Chown(w) ==
    Cmd(w, "s4_chown", "sudo chown -R pi:pi screenly .screenly screenly_assets", TRUE,
        LAMBDA r, rc : Exec(w, [r EXCEPT !.pc = "s4_touch"], r.task, {}))

\* lines 355-357
S4Touch(w) ==
    Cmd(w, "s4_touch", "touch screenly/viewer/__init__.py", TRUE,
        LAMBDA r, rc : EndStep(w, r, 4))

MacOutputs == {"", "b8:27:eb:00:00:01", "b8:27:eb:00:00:02"}

\* lines 366-377: the hardware MAC of the device
S5Mac(w) ==
    /\ \E mac \in MacOutputs :
        Cmd(w, "s5_mac", "cat /sys/class/net/eth0/address", FALSE,
            LAMBDA r, rc : Exec(w, [r EXCEPT !.pc = "s5_sftp", !.host_mac = mac], r.task, {}))

\* lines 378-383: open the file transfer handle and write the compose file
S5Sftp(w) ==
    /\ run[w].pc = "s5_sftp"
    /\ \E o \in {"ok", "open_fails", "write_fails"} :
        LET r == run[w]
        IN  CASE o = "ok" -> EndStep(w, [r EXCEPT !.sftp = "open"], 5)
              [] o = "open_fails" -> Exec(w, Raise(r, E_sftp), r.task, {})
              [] OTHER -> Exec(w, Raise([r EXCEPT !.sftp = "open"], E_sftp), r.task, {})
    /\ UNCHANGED <<players, queue, nStarted, cancels, nRetry, harness, bulks, bulkq>>

\* lines 392-439: three file writes, the third only if the bundled file exists
S6Upload(w) ==
    /\ run[w].pc = "s6_upload"
    /\ \E ok \in BOOLEAN :
        LET r == run[w]
        IN  IF ok
            THEN EndStep(w, r, 6)
            ELSE Exec(w, Raise(r, E_sftp), AppendLog(r.task, r.rid, ""), LogFields)
    /\ UNCHANGED <<players, queue, nStarted, cancels, nRetry, harness, bulks, bulkq>>

Images == <<"redis", "watchtower", "nginx", "websocket", "server", "celery", "viewer">>

\* the same check leaving the message of line 445 in the ledger entry
S7CheckNoName(w) ==
    /\ run[w].pc = "s7_check"
    /\ LET r == run[w]
           t0 == tasks[r.tid]
           t1 == UpdateStep(t0, 7, "docker_pull", "running", BeginMessage(7))
           t2 == AppendLog(t1, r.rid, "")
       IN  IF Cancelled(t0)
           THEN Exec(w, [r EXCEPT !.pc = "finally", !.exit = "return"], t0, {})
           ELSE Exec(w, [r EXCEPT !.pc = "s7_pull"], t2, StepFields \cup LogFields)
    /\ UNCHANGED <<players, queue, nStarted, cancels, nRetry, harness, bulks, bulkq>>

\* lines 460-465: before each pull the row is re-read and the ledger entry
\* names the image
S7Check(w) ==
    /\ run[w].pc = "s7_check"
    /\ LET r == run[w]
           t0 == tasks[r.tid]
           t1 == UpdateStep(t0, 7, "docker_pull", "running", "Pulling " \o Images[r.idx])
           t2 == AppendLog(t1, r.rid, "")
       IN  IF Cancelled(t0)
           THEN Exec(w, [r EXCEPT !.pc = "finally", !.exit = "return"], t0, {})
           ELSE Exec(w, [r EXCEPT !.pc = "s7_pull"], t2, StepFields \cup LogFields)
    /\ UNCHANGED <<players, queue, nStarted, cancels, nRetry, harness, bulks, bulkq>>

\* lines 466-475
S7Pull(w) ==
    Cmd(w, "s7_pull", "docker pull image", TRUE,
        LAMBDA r, rc :
            IF r.idx < Len(Images)
            THEN LogGoto(w, [r EXCEPT !.idx = @ + 1], "s7_check")
            ELSE EndStep(w, r, 7))

\* lines 484-490
S8Up(w) ==
    Cmd(w, "s8_up", "cd screenly && docker compose up -d", TRUE,
        LAMBDA r, rc : EndStep(w, r, 8))

\* the readiness loop with a twenty-fifth probe
S9ProbeTwentyFifth(w) ==
    Cmd(w, "s9_probe", "curl -sf --max-time 5 http://localhost/api/v2/info", FALSE,
        LAMBDA r, rc :
            IF rc = 0
            THEN EndStep(w, r, 9)
            ELSE IF r.attempt < ReadyProbes
            THEN LogGoto(w, [r EXCEPT !.attempt = @ + 1], "s9_probe")
            ELSE Exec(w, Raise([r EXCEPT !.attempt = @ + 1], E_ready),
                      AppendLog(r.task, r.rid, ""), LogFields))

\* lines 499-516: one probe of the readiness loop (attempt counts the probes
\* made), and the raise after the last one
S9Probe(w) ==
    Cmd(w, "s9_probe", "curl -sf --max-time 5 http://localhost/api/v2/info", FALSE,
        LAMBDA r, rc :
            IF rc = 0
            THEN EndStep(w, r, 9)
            ELSE IF r.attempt + 1 < ReadyProbes
            THEN LogGoto(w, [r EXCEPT !.attempt = @ + 1], "s9_probe")
            ELSE Exec(w, Raise([r EXCEPT !.attempt = @ + 1], E_ready),
                      AppendLog(r.task, r.rid, ""), LogFields))

\* lines 525-610: with a callback URL the script and the units are installed
\* (commands and file writes, any of which may raise); the ledger entry is
\* closed as success either way
S10Phonehome(w) ==
    /\ run[w].pc = "s10_phonehome"
    /\ LET r == run[w]
       IN  IF r.fm # ""
           THEN \E o \in CmdOutcomes \cup {"write_fails"} :
                    LET res == ssh_run("sudo systemctl enable --now anthias-phonehome.timer",
                                       o, TRUE)
                    IN  IF o = "write_fails"
                        THEN Exec(w, Raise(r, E_sftp), r.task, {})
                        ELSE IF res.raised
                        THEN Exec(w, Raise(r, res.err), r.task, {})
                        ELSE EndStep(w, [r EXCEPT !.installed = TRUE], 10)
           ELSE EndStep(w, r, 10)
    /\ UNCHANGED <<players, queue, nStarted, cancels, nRetry, harness, bulks, bulkq>>

\* the same clause letting the error reach the except clause of the function
S11SkipFatal(w, r, e) ==
    Exec(w, Raise(r, e), r.task, {})

\* lines 664-666: the except clause of step 11
S11Skip(w, r, e) ==
    LET t1 == AppendLog(r.task, r.rid, "Tailscale setup failed (non-fatal): " \o e)
        t2 == UpdateStep(t1, 11, "tailscale", "skipped", "Non-fatal: " \o e)
    IN  Exec(w, [r EXCEPT !.pc = "begin", !.k = 12], t2, StepFields \cup LogFields)

\* a branch of step 11 that skips the step with a message (lines 659-663)
S11NoKey(w, r, message) ==
    LET t1 == AppendLog(r.task, r.rid, "")
        t2 == UpdateStep(t1, 11, "tailscale", "skipped", message)
    IN  Exec(w, [r EXCEPT !.pc = "begin", !.k = 12], t2, StepFields \cup LogFields)

KeyStates == {"none", "undecryptable", "ok"}

\* lines 619-642 and 659-663: the configured key, and the probe for the client
S11Tailscale(w) ==
    \E key \in KeyStates :
        IF key = "ok"
        THEN CmdTry(w, "s11_tailscale", "command -v tailscale", FALSE,
                    LAMBDA r, rc : LogGoto(w, r, IF rc # 0 THEN "s11_install" ELSE "s11_up"),
                    LAMBDA r, e : S11Skip(w, r, e))
        ELSE /\ run[w].pc = "s11_tailscale"
             /\ S11NoKey(w, run[w], IF key = "none" THEN "No auth key configured"
                                                     ELSE "Auth key error")
             /\ UNCHANGED <<players, queue, nStarted, cancels, nRetry, harness, bulks, bulkq>>

\* lines 636-645
S11Install(w) ==
    CmdTry(w, "s11_install", "curl -fsSL https://tailscale.com/install.sh | sh", TRUE,
           LAMBDA r, rc : LogGoto(w, r, "s11_up"),
           LAMBDA r, e : S11Skip(w, r, e))

\* lines 646-651
S11Up(w) ==
    CmdTry(w, "s11_up", TailscaleUpCmd, TRUE,
           LAMBDA r, rc : Exec(w, [r EXCEPT !.pc = "s11_ip"], r.task, {}),
           LAMBDA r, e : S11Skip(w, r, e))

MeshAddresses == {"100.64.0.7"}

\* lines 654-657
S11Ip(w) ==
    \E ip \in MeshAddresses :
        CmdTry(w, "s11_ip", "tailscale ip -4", TRUE,
               LAMBDA r, rc :
                    LET t1 == AppendLog(r.task, r.rid, "")
                        t2 == UpdateStep(t1, 11, "tailscale", "success", DoneMessage(11) \o ip)
                    IN  Exec(w, [r EXCEPT !.pc = "begin", !.k = 12, !.tailscale_ip = ip],
                             t2, StepFields \cup LogFields),
               LAMBDA r, e : S11Skip(w, r, e))

\* lines 704-706: the except clause of step 12
S12Skip(w, r, e) ==
    LET t1 == AppendLog(r.task, r.rid, "Silent boot setup failed (non-fatal): " \o e)
        t2 == UpdateStep(t1, 12, "silent_boot", "skipped", "Non-fatal: " \o e)
    IN  Exec(w, [r EXCEPT !.pc = "resolve", !.script_rc = 0], t2, StepFields \cup LogFields)

\* lines 693-694: the script is written to the device
S12Write(w) ==
    /\ run[w].pc = "s12_write"
    /\ \E ok \in BOOLEAN :
        LET r == run[w]
        IN  IF ok
            THEN Exec(w, [r EXCEPT !.pc = "s12_script"], r.task, {})
            ELSE S12Skip(w, r, E_sftp)
    /\ UNCHANGED <<players, queue, nStarted, cancels, nRetry, harness, bulks, bulkq>>

\* lines 695-696: the script runs with check=False and its exit status is
\* dropped (script_rc keeps it until the step ends)
S12Script(w) ==
    CmdTry(w, "s12_script", "chmod +x setup-silent-boot.sh && bash setup-silent-boot.sh", FALSE,
           LAMBDA r, rc : Exec(w, [r EXCEPT !.pc = "s12_cursor", !.script_rc = rc], r.task, {}),
           LAMBDA r, e : S12Skip(w, r, e))

\* lines 698-703
S12Cursor(w) ==
    CmdTry(w, "s12_cursor", "sudo bash -c 'echo 0 > /sys/class/graphics/fbcon/cursor_blink'", FALSE,
           LAMBDA r, rc :
                LET t1 == AppendLog(r.task, r.rid, "")
                    t2 == UpdateStep(t1, 12, "silent_boot", "success", DoneMessage(12))
                IN  Exec(w, [r EXCEPT !.pc = "resolve", !.script_rc = 0],
                         t2, StepFields \cup LogFields),
           LAMBDA r, e : S12Skip(w, r, e))

---------------------------------------------------------------------------
(* The device identity resolver *)

Url(address) == "http://" \o address

\* the values of the device row with the address taken from the mesh address
\* only
PlayerDefaultsMeshUrl(t, device_type, host_mac, tailscale_ip) ==
    [name |-> IF t.player_name # "" THEN t.player_name ELSE "Player " \o t.ip_address,
     url |-> Url(tailscale_ip),
     mac_address |-> host_mac,
     device_type |-> device_type,
     is_online |-> TRUE, last_seen |-> 0, last_status |-> "",
     tailscale_ip |-> tailscale_ip,
     tailscale_enabled |-> tailscale_ip # ""]

\* lines 710-725: the values of the device row
PlayerDefaults(t, device_type, host_mac, tailscale_ip) ==
    [name |-> IF t.player_name # "" THEN t.player_name ELSE "Player " \o t.ip_address,
     url |-> IF tailscale_ip # "" THEN Url(tailscale_ip) ELSE Url(t.ip_address),
     mac_address |-> host_mac,
     device_type |-> device_type,
     is_online |-> TRUE, last_seen |-> 0, last_status |-> "",
     tailscale_ip |-> tailscale_ip,
     tailscale_enabled |-> tailscale_ip # ""]

ByMac(rows, mac) == {i \in DOMAIN rows : rows[i].mac_address = mac}
ByUrl(rows, url) == {i \in DOMAIN rows : rows[i].url = url}

\* a lookup that knows the URL only
CandidatesByUrl(rows, host_mac, player_url) == ByUrl(rows, player_url)

\* lines 729-734: the rows the lookup may return: a row with the MAC if the MAC
\* is known and some row has it, else the row with the URL of the target
\* (first() among several rows with the MAC depends on their names)
Candidates(rows, host_mac, player_url) ==
    IF host_mac # "" /\ ByMac(rows, host_mac) # {}
    THEN ByMac(rows, host_mac)
    ELSE ByUrl(rows, player_url)

\* lines 729-734
Resolve(w) ==
    /\ run[w].pc = "resolve"
    /\ LET r == run[w]
           c == Candidates(players, r.host_mac, Url(r.task.ip_address))
       IN  IF c = {}
           THEN Exec(w, [r EXCEPT !.pc = "resolve_write", !.found = NoPlayer], r.task, {})
           ELSE \E p \in c :
                    Exec(w, [r EXCEPT !.pc = "resolve_write", !.found = p], r.task, {})
    /\ UNCHANGED <<players, queue, nStarted, cancels, nRetry, harness, bulks, bulkq>>

\* lines 737-748: the fields that save() writes to the matched row
UpdatedPlayer(row, d) ==
    [row EXCEPT !.name = d.name, !.url = d.url, !.is_online = TRUE,
                !.device_type = d.device_type, !.mac_address = d.mac_address,
                !.tailscale_ip = IF d.tailscale_ip # "" THEN d.tailscale_ip ELSE @,
                !.tailscale_enabled = IF d.tailscale_ip # "" THEN TRUE ELSE @]

\* models.py lines 43-46: url is unique
UrlTaken(rows, url, except) == \E i \in DOMAIN rows : i # except /\ rows[i].url = url

\* lines 736-751: update the matched row or create one; the unique URL makes
\* the write raise IntegrityError
ResolveWrite(w) ==
    /\ run[w].pc = "resolve_write"
    /\ LET r == run[w]
           d == PlayerDefaults(r.task, r.device_type, r.host_mac, r.tailscale_ip)
       IN  IF UrlTaken(players, d.url, r.found)
           THEN /\ Exec(w, Raise(r, E_integrity), r.task, {})
                /\ UNCHANGED players
           ELSE IF r.found # NoPlayer
           THEN /\ players' = [players EXCEPT ![r.found] = UpdatedPlayer(@, d)]
                /\ Exec(w, [r EXCEPT !.pc = "finish"], r.task, {})
           ELSE /\ players' = Append(players, d)
                /\ Exec(w, [r EXCEPT !.pc = "finish", !.found = Len(players) + 1],
                        r.task, {})
    /\ UNCHANGED <<queue, nStarted, cancels, nRetry, harness, bulks, bulkq>>

\* lines 753-756
Finish(w) ==
    /\ run[w].pc = "finish"
    /\ LET r == run[w]
           t1 == [r.task EXCEPT !.player = r.found, !.status = "success"]
           t2 == AppendLog(t1, r.rid, "Provisioning complete!")
       IN  Exec(w, [r EXCEPT !.pc = "finally", !.exit = "ok"], t2,
                {"player", "status"} \cup LogFields)
    /\ UNCHANGED <<players, queue, nStarted, cancels, nRetry, harness, bulks, bulkq>>

---------------------------------------------------------------------------
(* The other actors on a task row *)

\* an execution of provision_player for the row is queued or has not returned
InFlight(tid) ==
    \/ \E i \in 1..Len(queue) : queue[i].tid = tid
    \/ \E w \in Workers : run[w].pc # "idle" /\ run[w].tid = tid

\* the external actor of the cooperative cancellation: it writes status =
\* failed to a row that is running
ExternalMarkFailed(tid) ==
    /\ Len(cancels) < MaxCancels
    /\ tasks[tid].status = "running"
    /\ tasks' = [tasks EXCEPT ![tid].status = "failed"]
    /\ cancels' = Append(cancels, RunningStep(tasks[tid]) # 0)
    /\ UNCHANGED <<players, queue, run, nStarted, nRetry, harness, bulks, bulkq>>

FmUrl == "http://fm.example"

\* provision_views.py lines 82-88: the reset of a retried row
ResetTask(t) ==
    [t EXCEPT !.status = "pending", !.current_step = 0, !.steps = <<>>,
              !.error_message = "", !.log_output = <<>>, !.player = NoPlayer]

\* provision_views.py lines 71-91: a retry request with a password for a
\* failed row resets the row and queues an execution
Retry(tid) ==
    /\ nRetry < MaxRetries
    /\ tasks[tid].status = "failed"
    /\ tasks' = [tasks EXCEPT ![tid] = ResetTask(@)]
    /\ queue' = Append(queue, [tid |-> tid, fm |-> FmUrl])
    /\ nRetry' = nRetry + 1
    /\ UNCHANGED <<players, run, nStarted, cancels, harness, bulks, bulkq>>

---------------------------------------------------------------------------
(* The specification of one provisioning request *)

TargetAddresses == {"10.0.0.5", "10.0.0.6"}
RequestedNames == {"", "Lobby"}

MacA == "b8:27:eb:00:00:01"

Player(name, address, mac) ==
    [name |-> name, url |-> Url(address), mac_address |-> mac, device_type |-> "unknown",
     is_online |-> FALSE, last_seen |-> 0, last_status |-> "",
     tailscale_ip |-> "", tailscale_enabled |-> FALSE]

\* the device rows that exist when the request is made
Fleets ==
    { <<>>,
      << Player("Hall", "10.0.0.5", MacA) >>,
      << Player("Desk", "10.0.0.6", ""), Player("Hall", "10.0.0.5", MacA) >>,
      << Player("Mesh", "100.64.0.7", ""), Player("Hall", "10.0.0.5", MacA) >> }

\* provision_views.py lines 29-37: the row of an accepted request and its
\* queued execution; the callback URL is the parameter fm_server_url of the
\* task, '' by default (provision.py line 140) and in the call of
\* bulk_provision.py line 144
Init ==
    /\ \E ip \in TargetAddresses, name \in RequestedNames : tasks = << NewTask(ip, name) >>
    /\ players \in Fleets
    /\ \E fm \in {"", FmUrl} : queue = << [tid |-> 1, fm |-> fm] >>
    /\ run = [w \in Workers |-> Idle]
    /\ nStarted = 0
    /\ cancels = <<>>
    /\ nRetry = 0
    /\ harness = [task |-> NoTask, calls |-> 0]
    /\ bulks = <<>>
    /\ bulkq = <<>>

Orchestrator(w) ==
    \/ StartRun(w)
    \/ S1Begin(w) \/ S1Port(w) \/ S1Wait(w) \/ S1Connect(w) \/ S1Uname(w) \/ S1Model(w)
    \/ StepBegin(w)
    \/ S2Df(w) \/ S2Curl(w) \/ S2Ping(w)
    \/ S3Which(w) \/ S3Compose(w) \/ S3Plugin(w) \/ S3Install(w) \/ S3Usermod(w)
    \/ S3Version(w) \/ S3Reconnect(w)
    \/ S4Mkdir(w) \/ S4Chown(w) \/ S4Touch(w)
    \/ S5Mac(w) \/ S5Sftp(w)
    \/ S6Upload(w)
    \/ S7Check(w) \/ S7Pull(w)
    \/ S8Up(w)
    \/ S9Probe(w)
    \/ S10Phonehome(w)
    \/ S11Tailscale(w) \/ S11Install(w) \/ S11Up(w) \/ S11Ip(w)
    \/ S12Write(w) \/ S12Script(w) \/ S12Cursor(w)
    \/ Resolve(w) \/ ResolveWrite(w) \/ Finish(w)
    \/ HSave(w) \/ HLog(w) \/ HStep(w) \/ Finally(w) \/ WorkerReturn(w)

\* in this specification a retry is requested once the execution that failed
\* has returned; SpecRetryRace has the requests that arrive earlier
Next ==
    \/ \E w \in Workers : Orchestrator(w)
    \/ \E tid \in DOMAIN tasks : ExternalMarkFailed(tid)
    \/ \E tid \in DOMAIN tasks : ~InFlight(tid) /\ Retry(tid)

Spec == Init /\ [][Next]_vars

\* the same request for one target address, with the callback URL that the
\* views pass
InitOneTarget ==
    /\ tasks = << NewTask("10.0.0.5", "") >>
    /\ players \in Fleets
    /\ queue = << [tid |-> 1, fm |-> FmUrl] >>
    /\ run = [w \in Workers |-> Idle]
    /\ nStarted = 0
    /\ cancels = <<>>
    /\ nRetry = 0
    /\ harness = [task |-> NoTask, calls |-> 0]
    /\ bulks = <<>>
    /\ bulkq = <<>>

SpecOneTarget == InitOneTarget /\ [][Next]_vars

---------------------------------------------------------------------------
(* A retry requested while the failed execution is still in its except clause:
   the row is failed from line 763 on, and provision_retry asks for no more.
   Both executions are followed to the end of step 2. *)

InitRetryRace ==
    /\ tasks = << NewTask("10.0.0.5", "") >>
    /\ players = <<>>
    /\ queue = << [tid |-> 1, fm |-> ""] >>
    /\ run = [w \in Workers |-> Idle]
    /\ nStarted = 0
    /\ cancels = <<>>
    /\ nRetry = 0
    /\ harness = [task |-> NoTask, calls |-> 0]
    /\ bulks = <<>>
    /\ bulkq = <<>>

FirstSteps(w) ==
    \/ StartRun(w)
    \/ S1Begin(w) \/ S1Port(w) \/ S1Wait(w) \/ S1Connect(w) \/ S1Uname(w) \/ S1Model(w)
    \/ (run[w].k = 2 /\ StepBegin(w))
    \/ S2Df(w) \/ S2Curl(w) \/ S2Ping(w)
    \/ HSave(w) \/ HLog(w) \/ HStep(w) \/ Finally(w) \/ WorkerReturn(w)

NextRetryRace ==
    \/ \E w \in Workers : FirstSteps(w)
    \/ \E tid \in DOMAIN tasks : Retry(tid)

SpecRetryRace == InitRetryRace /\ [][NextRetryRace]_vars

---------------------------------------------------------------------------
(* Two requests for one device that is reachable at two addresses
   (provision_serializers.py lines 21-28 refuse a second request for the same
   address only).  Both executions have finished step 12: each stands at
   line 708 with the ledger and the log of its twelve steps; the mesh join of
   step 11 was made with the address, or skipped for want of a key. *)

LedgerAfterStep12(mesh) ==
    [k \in 1..TotalSteps |->
        IF k = 11 /\ mesh = ""
        THEN StepEntry(11, StepName(11), "skipped", "No auth key configured")
        ELSE StepEntry(k, StepName(k), "success",
                       IF k = 11 THEN DoneMessage(11) \o mesh ELSE DoneMessage(k))]

TaskAfterStep12(ip, rid, mesh) ==
    [NewTask(ip, "") EXCEPT !.status = "running", !.current_step = TotalSteps,
                            !.steps = LedgerAfterStep12(mesh),
                            !.log_output = [k \in 1..TotalSteps |-> LogLine(rid, k, "")]]

RunAfterStep12(tid, ip, mesh) ==
    [Idle EXCEPT !.pc = "resolve", !.tid = tid, !.rid = tid, !.k = TotalSteps,
                 !.task = TaskAfterStep12(ip, tid, mesh),
                 !.ssh = "open", !.sftp = "open", !.device_type = "pi4",
                 !.host_mac = MacA, !.tailscale_ip = mesh]

InitTwoRuns ==
    \E m1, m2 \in MeshAddresses \cup {""} :
        /\ tasks = << TaskAfterStep12("10.0.0.5", 1, m1), TaskAfterStep12("10.0.0.6", 2, m2) >>
        /\ run = << RunAfterStep12(1, "10.0.0.5", m1), RunAfterStep12(2, "10.0.0.6", m2) >>
        /\ players = <<>>
        /\ queue = <<>>
        /\ nStarted = 2
        /\ cancels = <<>>
        /\ nRetry = 0
        /\ harness = [task |-> NoTask, calls |-> 0]
        /\ bulks = <<>>
        /\ bulkq = <<>>

LastSteps(w) ==
    \/ Resolve(w) \/ ResolveWrite(w) \/ Finish(w)
    \/ HSave(w) \/ HLog(w) \/ HStep(w) \/ Finally(w) \/ WorkerReturn(w)

NextTwoRuns == \E w \in Workers : LastSteps(w)

SpecTwoRuns == InitTwoRuns /\ [][NextTwoRuns]_vars

(* Two executions of one row.  provision_retry accepts a request whenever
   the status is failed (provision_views.py line 71), also while an execution
   of the row is in flight; the execution it queues (run 2) has finished step
   12.  The first execution (run 1) is in one of two places.  Late: an
   external actor had marked the running row failed, the retry reset the row
   while run 1 was inside a step, and at its next step boundary run 1 read a
   status that is not failed (line 262 and its copies) and went on; it has
   finished step 12 too.  Not late: run 1 failed in step 2 and saved status =
   failed (line 763), the retry was accepted then, and run 1 has not yet
   executed line 764. *)

RunInHandler ==
    LET t == [NewTask("10.0.0.5", "") EXCEPT
                !.status = "failed", !.current_step = 2,
                !.error_message = Truncate(E_cmd_failed, ErrFieldLen),
                !.steps = << StepEntry(1, StepName(1), "success", DoneMessage(1)),
                             StepEntry(2, StepName(2), "running", BeginMessage(2)) >>,
                !.log_output = << LogLine(1, 1, ""), LogLine(1, 2, "") >>]
    IN  [Idle EXCEPT !.pc = "h_log", !.tid = 1, !.rid = 1, !.k = 2, !.task = t,
                     !.err = E_cmd_failed, !.errstep = 2, !.ssh = "open",
                     !.device_type = "pi4"]

InitSameRow ==
    \E m \in MeshAddresses \cup {""}, late \in BOOLEAN :
        /\ tasks = << TaskAfterStep12("10.0.0.5", 2, m) >>
        /\ run = << IF late THEN RunAfterStep12(1, "10.0.0.5", m) ELSE RunInHandler,
                    [RunAfterStep12(1, "10.0.0.5", m) EXCEPT
                        !.rid = 2, !.task = TaskAfterStep12("10.0.0.5", 2, m)] >>
        /\ players \in Fleets
        /\ queue = <<>>
        /\ nStarted = 2
        /\ cancels = IF late THEN << TRUE >> ELSE <<>>
        /\ nRetry = 1
        /\ harness = [task |-> NoTask, calls |-> 0]
        /\ bulks = <<>>
        /\ bulkq = <<>>

SpecSameRow == InitSameRow /\ [][NextTwoRuns]_vars

---------------------------------------------------------------------------
(* The step ledger on its own: any sequence of _update_step calls on one row *)

MaxCalls == 4
LedgerSteps == 3

LedgerStatuses == {"running", "success", "failed", "skipped"}

InitLedger ==
    /\ tasks = << NewTask("10.0.0.5", "") >>
    /\ players = <<>>
    /\ queue = <<>>
    /\ run = [w \in Workers |-> Idle]
    /\ nStarted = 0
    /\ cancels = <<>>
    /\ nRetry = 0
    /\ harness = [task |-> NewTask("10.0.0.5", ""), calls |-> 0]
    /\ bulks = <<>>
    /\ bulkq = <<>>

\* lines 48-70: _update_step(task, step_num, name, status) on the task object
\* of the harness
RecordStep(step_num, status) ==
    /\ harness.calls < MaxCalls
    /\ LET t == UpdateStep(harness.task, step_num, StepName(step_num), status, "")
       IN  /\ harness' = [task |-> t, calls |-> harness.calls + 1]
           /\ tasks' = [tasks EXCEPT ![1] = SaveFields(@, t, StepFields)]
    /\ UNCHANGED <<players, queue, run, nStarted, cancels, nRetry, bulks, bulkq>>

NextLedger == \E step_num \in 1..LedgerSteps, status \in LedgerStatuses : RecordStep(step_num, status)

SpecLedger == InitLedger /\ [][NextLedger]_vars

---------------------------------------------------------------------------
(* The command runner on its own: any sequence of _ssh_run calls *)

MaxRunnerCalls == 3

RunnerCommands ==
    {"uname -m", "docker --version", "df -BG / | tail -1",
     "command -v docker", TailscaleUpCmd}

InitRunner ==
    /\ tasks = <<>>
    /\ players = <<>>
    /\ queue = <<>>
    /\ run = [w \in Workers |-> Idle]
    /\ nStarted = 0
    /\ cancels = <<>>
    /\ nRetry = 0
    /\ harness = [calls |-> 0, cmd |-> "", o |-> "ok", check |-> TRUE,
                  res |-> ssh_run("", "ok", TRUE)]
    /\ bulks = <<>>
    /\ bulkq = <<>>

\* lines 79-108: one call of _ssh_run; the harness keeps the call and its result
RunCommand(cmd, o, check) ==
    /\ harness.calls < MaxRunnerCalls
    /\ harness' = [calls |-> harness.calls + 1, cmd |-> cmd, o |-> o, check |-> check,
                   res |-> ssh_run(cmd, o, check)]
    /\ UNCHANGED <<tasks, players, queue, run, nStarted, cancels, nRetry, bulks, bulkq>>

NextRunner ==
    \E cmd \in RunnerCommands, o \in CmdOutcomes, check \in BOOLEAN : RunCommand(cmd, o, check)

SpecRunner == InitRunner /\ [][NextRunner]_vars

---------------------------------------------------------------------------
(* The bulk coordinator: bulk_start and the task bulk_provision_task *)

MaxBulk == 2
MaxTargets == 2

\* request.data['ips'] of bulk_start: the lists the view accepts (an empty
\* list is answered with 400 before any row is created)
RECURSIVE ListsOfLen(_)
ListsOfLen(n) ==
    IF n = 0 THEN { <<>> }
    ELSE { Append(l, ip) : l \in ListsOfLen(n - 1), ip \in TargetAddresses }

TargetLists == UNION { ListsOfLen(n) : n \in 1..MaxTargets }

\* models.py BulkProvisionTask: status, selected_ips and results of a new row
NewBulk(ips) == [status |-> "pending", selected_ips |-> ips, results |-> <<>>]

\* bulk_views.py bulk_start: create the row with status pending, then queue
\* bulk_provision_task for it
bulk_start(ips) ==
    /\ Len(bulks) < MaxBulk
    /\ bulks' = Append(bulks, NewBulk(ips))
    /\ bulkq' = Append(bulkq, [bulk |-> Len(bulks) + 1, pc |-> "queued"])
    /\ UNCHANGED <<tasks, players, queue, run, nStarted, cancels, nRetry, harness>>

\* bulk_provision.py bulk_provision_task, entered by a worker.  The second
\* import of the function body names provision_player_sync, which
\* players/provision.py does not define: the import raises ImportError before
\* the row is read, nothing in the function catches it, and the task has no
\* retry.  The worker records the task as failed in its own result store; the
\* BulkProvisionTask row is not written.
bulk_provision_task(i) ==
    /\ i \in DOMAIN bulkq
    /\ bulkq[i].pc = "queued"
    /\ bulkq' = [bulkq EXCEPT ![i].pc = "raised"]
    /\ UNCHANGED <<tasks, players, queue, run, nStarted, cancels, nRetry, harness, bulks>>

InitBulk ==
    /\ tasks = <<>>
    /\ players = <<>>
    /\ queue = <<>>
    /\ run = [w \in Workers |-> Idle]
    /\ nStarted = 0
    /\ cancels = <<>>
    /\ nRetry = 0
    /\ harness = [task |-> NoTask, calls |-> 0]
    /\ bulks = <<>>
    /\ bulkq = <<>>

NextBulk ==
    \/ \E ips \in TargetLists : bulk_start(ips)
    \/ \E i \in 1..MaxBulk : bulk_provision_task(i)

SpecBulk == InitBulk /\ [][NextBulk]_vars

---------------------------------------------------------------------------
(* The registration endpoint of the heartbeat: views.py register_player *)

MaxBeats == 2

\* str.rstrip('/')
RECURSIVE RStripSlash(_)
RStripSlash(s) ==
    IF s # "" /\ SubSeq(s, Len(s), Len(s)) = "/"
    THEN RStripSlash(SubSeq(s, 1, Len(s) - 1))
    ELSE s

\* str.lower() on the characters of a MAC address
RECURSIVE Lower(_)
Lower(s) ==
    IF s = "" THEN ""
    ELSE LET c == SubSeq(s, 1, 1)
             l == CASE c = "A" -> "a" [] c = "B" -> "b" [] c = "C" -> "c"
                    [] c = "D" -> "d" [] c = "E" -> "e" [] c = "F" -> "f"
                    [] OTHER -> c
         IN  l \o Lower(SubSeq(s, 2, Len(s)))

MacLen == 17

\* views.py lines 1106-1113: '' for a missing, placeholder or malformed value
\* (the placeholder text is not 17 characters long)
normalize_mac(raw) == IF Len(raw) # MacLen THEN "" ELSE Lower(raw)

\* serializers.py lines 12-20: the host of the URL if it is a mesh address
extract_tailscale_ip(url) ==
    IF \E a \in MeshAddresses : url = Url(a)
    THEN CHOOSE a \in MeshAddresses : url = Url(a)
    ELSE ""

\* a delete that removes nothing
WithoutNone(rows, S) == rows

\* the rows without those at the positions of S
Without(rows, S) ==
    LET F[i \in 0..Len(rows)] ==
            IF i = 0 THEN <<>>
            ELSE IF i \in S THEN F[i - 1] ELSE Append(F[i - 1], rows[i])
    IN  F[Len(rows)]

HeartbeatUrls == {"http://10.0.0.5", "http://10.0.0.6/", "http://100.64.0.7", ""}
HeartbeatNames == {"Unknown", "Kiosk"}
HeartbeatMacs == {"", "B8:27:EB:00:00:01", "b8:27:eb:00:00:02", "Unable to retrieve MAC address."}

\* views.py lines 1116-1231 for one request (no registration token
\* configured); the harness keeps the request and the answer.  last_seen is
\* the number of the request.  The except clause of lines 1207-1220 needs a
\* second request between lines 1193 and 1197 and is not taken here; the
\* default credentials of lines 1223-1227 are fields the rows do not carry.
register_player(raw_url, name, raw_mac) ==
    /\ harness.calls < MaxBeats
    /\ LET url == RStripSlash(raw_url)
           mac == normalize_mac(raw_mac)
           ts == extract_tailscale_ip(url)
           now == harness.calls + 1
           Seen(row) == [row EXCEPT !.is_online = TRUE, !.last_seen = now,
                                    !.last_status = "info",
                                    !.tailscale_ip = IF ts # "" THEN ts ELSE @,
                                    !.tailscale_enabled = IF ts # "" THEN TRUE ELSE @]
           Answer(a) == [calls |-> now, url |-> url, mac |-> mac, name |-> name,
                         answer |-> a]
       IN  IF url = ""
           THEN harness' = Answer("400") /\ UNCHANGED players
           ELSE IF mac # "" /\ ByMac(players, mac) # {}
           THEN \E p \in ByMac(players, mac) :
                    LET ghosts == ByUrl(players, url) \ {p}
                        row == [Seen(players[p]) EXCEPT !.url = url]
                    IN  /\ players' = Without([players EXCEPT ![p] = row],
                                              IF players[p].url # url THEN ghosts ELSE {})
                        /\ harness' = Answer("updated")
           ELSE IF ByUrl(players, url) # {}
           THEN \E p \in ByUrl(players, url) :
                    /\ players' = [players EXCEPT ![p] =
                                     [Seen(@) EXCEPT !.mac_address =
                                          IF mac # "" /\ @ = "" THEN mac ELSE @]]
                    /\ harness' = Answer("updated")
           ELSE /\ players' = Append(players,
                        [name |-> name, url |-> url, mac_address |-> mac,
                         device_type |-> "unknown", is_online |-> TRUE,
                         last_seen |-> now, last_status |-> "info",
                         tailscale_ip |-> ts, tailscale_enabled |-> ts # ""])
                /\ harness' = Answer("created")
    /\ UNCHANGED <<tasks, queue, run, nStarted, cancels, nRetry, bulks, bulkq>>

InitHeartbeat ==
    /\ tasks = <<>>
    /\ players \in Fleets
    /\ queue = <<>>
    /\ run = [w \in Workers |-> Idle]
    /\ nStarted = 0
    /\ cancels = <<>>
    /\ nRetry = 0
    /\ harness = [calls |-> 0, url |-> "", mac |-> "", name |-> "", answer |-> ""]
    /\ bulks = <<>>
    /\ bulkq = <<>>

NextHeartbeat ==
    \E raw_url \in HeartbeatUrls, name \in HeartbeatNames, raw_mac \in HeartbeatMacs :
        register_player(raw_url, name, raw_mac)

SpecHeartbeat == InitHeartbeat /\ [][NextHeartbeat]_vars

---------------------------------------------------------------------------
(* Claims *)

\* no two entries of a ledger have the same step number
UniqueSteps(steps) ==
    \A i, j \in 1..Len(steps) : steps[i].step = steps[j].step => i = j

\* C1: for every sequence of _update_step calls on a row, the persisted ledger
\* has at most one entry per step number: a call with a step number that is
\* present replaces that entry where it stands and changes no other entry, and
\* a call with a new step number appends exactly one entry
C1_UpsertByStep ==
    [][ harness'.calls = harness.calls + 1 =>
          LET old == tasks[1].steps
              new == tasks'[1].steps
              n == tasks'[1].current_step
              i == FindStep(old, n)
          IN  /\ UniqueSteps(new)
              /\ IF i # 0
                 THEN /\ Len(new) = Len(old)
                      /\ new[i].step = n
                      /\ \A j \in 1..Len(old) : j # i => new[j] = old[j]
                 ELSE /\ Len(new) = Len(old) + 1
                      /\ new[Len(new)].step = n
                      /\ SubSeq(new, 1, Len(old)) = old ]_vars

\* C1 witness: after four calls the ledger has two entries, so two calls named
\* a step that was present
C1_Witness ==
    /\ harness.calls = 4
    /\ Len(tasks[1].steps) = 2
    /\ tasks[1].steps[1].step = 2
    /\ tasks[1].steps[1].status = "success"

\* the positions of the except and finally clauses
HandlerPcs == {"h_save", "h_log", "h_step", "finally", "done"}

\* the execution w has left the except clause that handled an error
EndedFailed(w) == run[w].pc \in {"finally", "done"} /\ run[w].exit = "error"

\* nothing is queued and no execution is before its finally clause
Quiescent == queue = <<>> /\ \A w \in Workers : run[w].pc \in {"idle", "finally", "done"}

NoRunningEntry(t) == \A i \in 1..Len(t.steps) : t.steps[i].status # "running"

AllowedTransitions ==
    { <<"pending", "running">>, <<"running", "success">>, <<"running", "failed">>,
      <<"failed", "pending">> }

\* C2: every change of a row's status is pending -> running, running ->
\* success, running -> failed or the retry reset failed -> pending; in
\* particular no step of an execution moves a row out of success or failed
C2_StatusTransitions ==
    [][ \A tid \in DOMAIN tasks :
          tasks'[tid].status # tasks[tid].status =>
              <<tasks[tid].status, tasks'[tid].status>> \in AllowedTransitions ]_vars

\* C3 as stated: when a row with the MAC reported by the device exists, the
\* write of a run that succeeds leaves the number of device rows unchanged and
\* sets the URL of that row to the address the run was aimed at
C3_AddressFollowsTarget ==
    [][ \A w \in Workers :
          ( /\ run[w].pc = "resolve_write"
            /\ run'[w].pc = "finish"
            /\ run[w].host_mac # ""
            /\ ByMac(players, run[w].host_mac) # {} ) =>
              /\ Len(players') = Len(players)
              /\ \A p \in ByMac(players, run[w].host_mac) :
                    players'[p].url = Url(run[w].task.ip_address) ]_vars

\* C3 amended: when a row with the MAC reported by the device exists, the write
\* of a run that succeeds leaves the number of device rows unchanged, keeps the
\* MAC on that row and sets its URL to the mesh address if step 11 obtained
\* one, and to the address the run was aimed at otherwise
C3_AddressFollowsTargetOrMesh ==
    [][ \A w \in Workers :
          ( /\ run[w].pc = "resolve_write"
            /\ run'[w].pc = "finish"
            /\ run[w].host_mac # ""
            /\ ByMac(players, run[w].host_mac) # {} ) =>
              /\ Len(players') = Len(players)
              /\ \A p \in ByMac(players, run[w].host_mac) :
                    /\ players'[p].mac_address = run[w].host_mac
                    /\ players'[p].url =
                          IF run[w].tailscale_ip # "" THEN Url(run[w].tailscale_ip)
                          ELSE Url(run[w].task.ip_address) ]_vars

\* C3 witness: a run aimed at 10.0.0.6 without mesh address has written the
\* row of the device known at 10.0.0.5; the fleet still has its two rows
C3_Witness ==
    \E w \in Workers :
        /\ run[w].pc = "finish"
        /\ run[w].task.ip_address = "10.0.0.6"
        /\ run[w].tailscale_ip = ""
        /\ Len(players) = 2
        /\ players[1].name = "Mesh"
        /\ players[2].mac_address = MacA
        /\ players[2].url = Url("10.0.0.6")

\* C4: no two device rows have the same non-empty MAC
C4_UniqueMac ==
    \A i, j \in DOMAIN players :
        (players[i].mac_address # "" /\ players[i].mac_address = players[j].mac_address)
            => i = j

\* C5: once the row of an execution has been marked failed while one of the
\* steps 1 to 12 was executing, and as long as the execution is in its try
\* block and no retry is made, no step changes the status of the row, opens
\* a ledger entry of a later step or writes a device row
C5_CancelHonoured ==
    [][ \A w \in Workers :
          ( /\ run[w].pc \notin HandlerPcs \cup {"idle"}
            /\ tasks[run[w].tid].status = "failed"
            /\ cancels # <<>>
            /\ cancels[Len(cancels)]
            /\ nRetry' = nRetry ) =>
              /\ tasks'[run[w].tid].status = "failed"
              /\ tasks'[run[w].tid].current_step = tasks[run[w].tid].current_step
              /\ players' = players ]_vars

\* C6: when the executions have ended and the row is failed, the ledger of the
\* row has no running entry, and the entry that was running when the latest
\* execution raised is failed with the first 200 characters of the error
C6_NoDanglingRunning ==
    \A w \in Workers :
        ( /\ Quiescent
          /\ EndedFailed(w)
          /\ run[w].rid = nStarted
          /\ tasks[run[w].tid].status = "failed" ) =>
            LET t == tasks[run[w].tid]
                i == FindStep(t.steps, run[w].errstep)
            IN  /\ NoRunningEntry(t)
                /\ run[w].errstep # 0 =>
                      /\ i # 0
                      /\ t.steps[i].status = "failed"
                      /\ t.steps[i].message = Truncate(run[w].err, StepMsgLen)

\* C7: when an execution has left the except clause, the row has an error
\* message and its ledger has a failed entry
C7_FailureRecorded ==
    \A w \in Workers :
        EndedFailed(w) =>
            LET t == tasks[run[w].tid]
            IN  /\ t.error_message # ""
                /\ \E i \in 1..Len(t.steps) : t.steps[i].status = "failed"

\* C8: in every state of the table, a row that an execution has saved as
\* failed has an error message and no running ledger entry
C8_ConsistentSnapshot ==
    \A tid \in DOMAIN tasks :
        (tasks[tid].status = "failed" /\ cancels = <<>>) =>
            /\ tasks[tid].error_message # ""
            /\ NoRunningEntry(tasks[tid])

\* C9: after ssh.connect was rejected for authentication the execution is in
\* its except clause with the authentication error, it has made no further
\* call and slept no further delay (one call and no delay when the first call
\* was rejected), and once the executions have ended the row is failed and the
\* ledger entry of step 1 is failed
C9_AuthNotRetried ==
    \A w \in Workers :
        run[w].rejected =>
            /\ run[w].pc \in HandlerPcs
            /\ run[w].err = E_auth
            /\ run[w].nconn = run[w].attempt
            /\ Len(run[w].slept) = run[w].nconn - 1
            /\ (Quiescent /\ run[w].rid = nStarted) =>
                  LET t == tasks[run[w].tid]
                      i == FindStep(t.steps, 1)
                  IN  /\ t.status = "failed"
                      /\ i # 0
                      /\ t.steps[i].status = "failed"

ConnectErrors == {E_conn_timeout, E_conn_refused, E_conn_failed}

\* C10: ssh.connect is never called a sixth time; when call k succeeds, k
\* calls were made, k - 1 delays were slept and step 1 goes on; the errors of
\* an exhausted loop are raised after exactly 5 calls and the delays 5, 10, 15
\* and 20; and while the loop is still trying, the execution has not saved the
\* row as failed
C10_ConnectAttempts ==
    \A w \in Workers :
        /\ run[w].nconn <= 5
        /\ run[w].pc \in {"s1_uname", "s1_model"} =>
              /\ run[w].nconn = run[w].attempt
              /\ run[w].nconn \in 1..5
              /\ run[w].slept = SubSeq(ssh_delays, 1, run[w].nconn - 1)
        /\ (run[w].pc \in HandlerPcs /\ run[w].errstep = 1 /\ run[w].err \in ConnectErrors) =>
              /\ run[w].nconn = 5
              /\ run[w].slept = <<5, 10, 15, 20>>
        /\ (run[w].pc = "s1_connect" /\ cancels = <<>>) =>
              /\ tasks[run[w].tid].status = "running"
              /\ run[w].nconn = run[w].attempt - 1

\* C10 witness: the loop is exhausted after five refused calls and the row is
\* saved as failed
C10_Witness ==
    \E w \in Workers :
        /\ run[w].pc = "h_log"
        /\ run[w].err = E_conn_refused
        /\ run[w].nconn = 5
        /\ tasks[run[w].tid].status = "failed"

\* the invocation of bulk_provision_task for bulk row b has ended
CoordinatorEnded(b) ==
    \E i \in DOMAIN bulkq : bulkq[i].bulk = b /\ bulkq[i].pc = "raised"

\* some per-target result of the row has status success
SomeTargetSucceeded(row) ==
    \E j \in DOMAIN row.results : row.results[j].status = "success"

C13_BulkReachesTerminalStatus ==
    \A b \in DOMAIN bulks :
        CoordinatorEnded(b) => bulks[b].status \in {"completed", "failed"}

\* an execution that a retry request queued (the first execution of a row has
\* rid 1 in SpecRetryRace) and that has not returned
RetriedExecution(w) == run[w].pc \notin {"idle", "done"} /\ run[w].rid > 1

\* C14: the execution queued by a retry starts from the reset row (empty
\* ledger, empty log, no error message, no device reference), and at no point
\* does the row object it works on hold a log line of an earlier execution
C14_RetryStartsClean ==
    \A w \in Workers :
        RetriedExecution(w) =>
            /\ run[w].pc = "s1_begin" =>
                  /\ run[w].task.steps = <<>>
                  /\ run[w].task.log_output = <<>>
                  /\ run[w].task.error_message = ""
                  /\ run[w].task.player = NoPlayer
            /\ \A i \in DOMAIN run[w].task.log_output :
                  run[w].task.log_output[i].run = run[w].rid

\* C15: at any time at most one execution of provision_player is active for a
\* given row
C15_SingleWriter ==
    \A v, w \in Workers :
        (/\ v # w
         /\ run[v].pc \notin {"idle", "done"}
         /\ run[w].pc \notin {"idle", "done"}) => run[v].tid # run[w].tid

\* the states a handle may take in one step: a handle that exists is closed
\* before it is dropped or replaced
HandleStep(before, after) ==
    CASE before = "none" -> after \in {"none", "new", "open"}
      [] before = "new" -> after \in {"new", "open", "closed"}
      [] before = "open" -> after \in {"open", "closed"}
      [] OTHER -> after \in {"closed", "new", "open", "none"}

\* C16: when an execution has returned (after success, failure or the
\* cooperative return) its session and its file-transfer handle are closed
\* if they were ever made, and no step drops or replaces a session or handle
\* that it has not closed: the reconnect of step 3 closes the session before it
\* makes the new client
C16_HandlesClosed ==
    [][ \A w \in Workers :
          /\ (run[w].pc # "idle" /\ run'[w].pc # "idle") =>
                /\ HandleStep(run[w].ssh, run'[w].ssh)
                /\ HandleStep(run[w].sftp, run'[w].sftp)
          /\ run'[w].pc = "done" =>
                /\ run'[w].ssh \in {"none", "closed"}
                /\ run'[w].sftp \in {"none", "closed"}
      ]_vars

\* an execution that closed its session in step 3 and could not connect the
\* new client has returned with the new client closed
C16_Witness ==
    \E w \in Workers :
        /\ run[w].pc = "done"
        /\ run[w].err = E_reconnect
        /\ run[w].ssh = "closed"

\* C18: whenever the remote command of a call of _ssh_run reports no exit
\* status within the timeout, the call ends by raising the timeout error and
\* the command's channel is closed by then; the check flag makes no difference
C18_TimeoutClosesChannel ==
    (harness.calls > 0 /\ harness.o = "timeout") =>
        /\ harness.res.raised
        /\ harness.res.channel = "closed"
        /\ harness.res.err = E_cmd_timeout \o Truncate(harness.cmd, 100)

\* a call with check = False has timed out
C18_Witness ==
    /\ harness.calls > 0
    /\ harness.o = "timeout"
    /\ ~harness.check
    /\ harness.res.channel = "closed"

\* the positions of provision_player in the order of the code (lines 152-785);
\* the step boundary "begin" stands right before the first position of its step
\* and the two positions of the pull loop share one place
PcOrder ==
    << "s1_begin", "s1_port", "s1_wait", "s1_connect", "s1_uname", "s1_model",
       "s2_df", "s2_curl", "s2_ping",
       "s3_which", "s3_compose", "s3_plugin", "s3_install", "s3_usermod",
       "s3_version", "s3_reconnect",
       "s4_mkdir", "s4_chown", "s4_touch", "s5_mac", "s5_sftp", "s6_upload",
       "s7_check", "s8_up", "s9_probe", "s10_phonehome",
       "s11_tailscale", "s11_install", "s11_up", "s11_ip",
       "s12_write", "s12_script", "s12_cursor",
       "resolve", "resolve_write", "finish",
       "h_save", "h_log", "h_step", "finally", "done" >>

PcIndex(pc) == CHOOSE i \in DOMAIN PcOrder : PcOrder[i] = pc

\* more than twice the largest sum of loop counters an execution can hold
LoopWeight == 2 * (ReadyProbes + Len(Images)) + 2

\* how far an execution has come: its position first, then the counters of
\* the loop it is in (wait_i, attempt, the image index, the probe number)
Progress(r) ==
    LET place == CASE r.pc = "begin" -> 2 * PcIndex(BodyPc(r.k)) - 1
                   [] r.pc = "s7_pull" -> 2 * PcIndex("s7_check")
                   [] OTHER -> 2 * PcIndex(r.pc)
    IN  place * LoopWeight + 2 * (r.attempt + r.idx) + (IF r.pc = "s7_pull" THEN 1 ELSE 0)

\* the execution of worker w has returned and no later execution of its row
\* has been requested
ReturnedLast(w) ==
    /\ run[w].pc = "done"
    /\ ~ \E i \in 1..Len(queue) : queue[i].tid = run[w].tid
    /\ ~ \E v \in Workers : run[v].pc # "idle" /\ run[v].tid = run[w].tid /\ run[v].rid > run[w].rid

\* C17: every execution terminates and leaves the row success or failed: an
\* execution that has not returned can always take a step, each of its steps
\* moves it forward in the code or to the next iteration of a bounded loop
\* (12 and 5 in step 1, 3 in step 3, 7 in step 7, 24 in step 9), and when it
\* has returned the status of the row is success or failed
C17_Terminates ==
    /\ [](\A w \in Workers :
            /\ run[w].pc # "idle" => ENABLED Orchestrator(w)
            /\ ReturnedLast(w) => tasks[run[w].tid].status \in {"success", "failed"})
    /\ [][ /\ \A w \in Workers :
                (run[w].pc \notin {"idle", "done"} /\ run'[w] # run[w]) =>
                    /\ run'[w].pc # "idle"
                    /\ run'[w].rid = run[w].rid
                    /\ Progress(run'[w]) > Progress(run[w])
           /\ run' = run => (Len(cancels') > Len(cancels) \/ nRetry' > nRetry)
         ]_vars

\* an execution has used up the 24 probes of step 9 and has returned with the
\* row failed
C17_Witness ==
    \E w \in Workers :
        /\ run[w].pc = "done"
        /\ run[w].err = E_ready
        /\ tasks[run[w].tid].status = "failed"

\* C19: after the architecture probe of step 1 answered with an unsupported
\* architecture the execution is in its except clause with that error and no
\* device row has been created or changed; once the executions have ended the
\* row is failed, the ledger entry of step 1 is failed with a message that
\* begins with 'Unsupported architecture', and the ledger has no entry of step
\* 2 or later
C19_UnsupportedArchitecture ==
    \A w \in Workers :
        run[w].err = E_arch =>
            /\ run[w].pc \in HandlerPcs
            /\ players \in Fleets
            /\ (Quiescent /\ run[w].rid = nStarted) =>
                  LET t == tasks[run[w].tid]
                      i == FindStep(t.steps, 1)
                  IN  /\ t.status = "failed"
                      /\ i # 0
                      /\ t.steps[i].status = "failed"
                      /\ Truncate(t.steps[i].message, 24) = "Unsupported architecture"
                      /\ \A j \in 1..Len(t.steps) : t.steps[j].step = 1

\* the step numbers of a ledger, in the order of its entries
StepNumbers(steps) == [i \in DOMAIN steps |-> steps[i].step]

Names(rows) == {rows[i].name : i \in DOMAIN rows}

\* the step is a registration request whose URL is the URL of a row
BeatOnKnownUrl ==
    /\ harness'.calls = harness.calls + 1
    /\ ByUrl(players, harness'.url) # {}

\* the row at position p is updated in place by the request: it is online,
\* seen now, has the status of the request and its own name; no row is added
\* or removed and no name changes
UpdatedInPlace(p) ==
    /\ Len(players') = Len(players)
    /\ players'[p].url = harness'.url
    /\ players'[p].is_online
    /\ players'[p].last_seen = harness'.calls
    /\ players'[p].last_status = "info"
    /\ \A i \in DOMAIN players : players'[i].name = players[i].name

\* the MAC of the request is the MAC of a row that does not have the URL of
\* the request
MacOfOtherRow == ByMac(players, harness'.mac) \ ByUrl(players, harness'.url) # {}

\* C21 as stated: a registration whose URL is the URL of a row updates that
\* row and answers 'updated'; the number of rows is unchanged and no name is
\* overwritten
C21_HeartbeatUpdates ==
    [][ BeatOnKnownUrl =>
          /\ harness'.answer = "updated"
          /\ \E p \in ByUrl(players, harness'.url) : UpdatedInPlace(p)
      ]_vars

\* C21 amended: the above holds unless the lookup by the MAC address of the
\* request returns another row; then that row takes the URL, is updated and
\* keeps its name, the row that had the URL is deleted, and the answer is
\* 'updated'
C21_HeartbeatUpdatesOrMoves ==
    [][ BeatOnKnownUrl =>
          /\ harness'.answer = "updated"
          /\ IF harness'.mac # "" /\ MacOfOtherRow
             THEN \/ \E p \in ByMac(players, harness'.mac) \cap ByUrl(players, harness'.url) :
                        UpdatedInPlace(p)
                  \/ /\ Len(players') = Len(players) - 1
                     /\ Names(players') \subseteq Names(players)
                     /\ \E q \in DOMAIN players' :
                           /\ players'[q].url = harness'.url
                           /\ players'[q].mac_address = harness'.mac
                           /\ players'[q].last_seen = harness'.calls
                           /\ players'[q].is_online
                     /\ \A q \in DOMAIN players' :
                           players'[q].mac_address # harness'.mac =>
                               \E i \in DOMAIN players : players[i] = players'[q]
             ELSE \E p \in ByUrl(players, harness'.url) : UpdatedInPlace(p)
      ]_vars

\* the second of two requests named 'Unknown' has updated the row with its
\* URL, which still has the name it was given
C21_Witness ==
    /\ harness.calls = 2
    /\ harness.answer = "updated"
    /\ harness.name = "Unknown"
    /\ \E p \in DOMAIN players :
          /\ players[p].url = harness.url
          /\ players[p].last_seen = 2
          /\ players[p].name = "Hall"
          /\ Len(players) = 2

\* the ledger of row t has exactly the entries of the steps 1..current_step in
\* increasing order, current_step is at most total_steps, and every entry but
\* the last is success or skipped
LedgerInOrder(t) ==
    /\ t.current_step <= t.total_steps
    /\ StepNumbers(t.steps) = [i \in 1..t.current_step |-> i]
    /\ \A i \in 1..(Len(t.steps) - 1) : t.steps[i].status \in {"success", "skipped"}

\* C22: in every state of a run the ledger of the row holds exactly the
\* entries of the steps 1..current_step in increasing order, current_step is
\* at most 12, every entry but the last is success or skipped, and no step of
\* an execution lowers current_step (the retry reset starts a new run)
C22_LedgerInOrder ==
    [][ \A tid \in DOMAIN tasks :
          /\ LedgerInOrder(tasks'[tid])
          /\ nRetry' = nRetry => tasks'[tid].current_step >= tasks[tid].current_step
      ]_vars

\* one step of the execution w inside step 3: the install path sets the flag
\* and the other paths leave it unset; `docker --version` is followed by the
\* reconnect (session closed first) exactly when the flag is set and by step 4
\* on the session of step 1 otherwise; the reconnect makes the attempts 1..3,
\* reaches step 4 only with a connected new session and raises after the third
\* failure
ReconnectStep(r, r2) ==
    /\ (r.pc = "s3_usermod" /\ r2.pc = "s3_version") => r2.fresh
    /\ (r.pc \in {"s3_compose", "s3_plugin"} /\ r2.pc = "s3_version") => ~r2.fresh
    /\ (r.pc = "s3_version" /\ r2.pc # "h_save") =>
          IF r.fresh
          THEN r2.pc = "s3_reconnect" /\ r2.ssh = "closed" /\ r2.attempt = 1
          ELSE r2.pc = "begin" /\ r2.k = 4 /\ r.ssh = "open" /\ r2.ssh = "open"
    /\ r.pc = "s3_reconnect" =>
          /\ r.attempt \in 1..ReconnectAttempts
          /\ r.ssh \in {"closed", "new"}
          /\ \/ r2.pc = "begin" /\ r2.k = 4 /\ r2.ssh = "open"
             \/ /\ r2.pc = "s3_reconnect"
                /\ r.attempt < ReconnectAttempts
                /\ r2.attempt = r.attempt + 1
             \/ /\ r2.pc = "h_save"
                /\ r.attempt = ReconnectAttempts
                /\ r2.err = E_reconnect
    /\ (r2.pc = "begin" /\ r2.k = 4) => r.pc \in {"s3_version", "s3_reconnect"}

\* C25: in step 3 the session is closed and a new session is connected before
\* step 4 starts if and only if the container runtime was installed in this
\* run; the reconnect makes at most 3 attempts and the run fails when all 3
\* fail; when the runtime was present the session of step 1 is kept and no
\* reconnect happens
C25_ReconnectIffInstalled ==
    [][ \A w \in Workers : run'[w] # run[w] => ReconnectStep(run[w], run'[w]) ]_vars

\* an execution that installed the runtime is at the third attempt of the
\* reconnect, after two attempts failed
C25_Witness ==
    \E w \in Workers :
        /\ run[w].pc = "s3_reconnect"
        /\ run[w].fresh
        /\ run[w].attempt = ReconnectAttempts
        /\ run[w].ssh = "new"

Step11Pcs == {"s11_tailscale", "s11_install", "s11_up", "s11_ip"}

\* in the rows ts with the executions rn: the ledger entry of step 11 of a row
\* is success or skipped, or it is running while an execution of the row is
\* inside step 11
Step11Closed(ts, rn) ==
    \A tid \in DOMAIN ts :
        \A i \in 1..Len(ts[tid].steps) :
            ts[tid].steps[i].step = 11 =>
                \/ ts[tid].steps[i].status \in {"success", "skipped"}
                \/ /\ ts[tid].steps[i].status = "running"
                   /\ \E w \in Workers : rn[w].tid = tid /\ rn[w].pc \in Step11Pcs

Step12Pcs == {"s12_write", "s12_script", "s12_cursor"}

\* the status of the ledger entry of step k in the task object t ("" if none)
EntryStatus(t, k) ==
    IF \E i \in 1..Len(t.steps) : t.steps[i].step = k
    THEN t.steps[CHOOSE i \in 1..Len(t.steps) : t.steps[i].step = k].status
    ELSE ""

\* C27: a failure of an action of step 12 (the upload of the script fails, a
\* command times out, the script exits with a non-zero status) is recorded as
\* step 12 skipped, never success or failed, and the execution goes on to the
\* registration of the device
C27_Step12FailureSkipped ==
    [][ \A w \in Workers :
          LET r == run[w]
              r2 == run'[w]
          IN  (r.pc \in Step12Pcs /\ r2 # r) =>
                /\ r2.pc \in Step12Pcs \cup {"resolve"}
                /\ (r2.pc = "resolve" /\ (r.pc # "s12_cursor" \/ r.script_rc # 0)) =>
                      EntryStatus(tasks'[r.tid], 12) = "skipped"
      ]_vars

\* C28: when an execution was given no callback server URL, step 10 installs
\* neither the heartbeat script nor the timer unit, closes its ledger entry as
\* skipped and goes on to the boundary of step 11
C28_NoCallbackSkipsStep10 ==
    [][ \A w \in Workers :
          LET r == run[w]
              r2 == run'[w]
          IN  (r.pc = "s10_phonehome" /\ r.fm = "" /\ r2 # r) =>
                /\ ~r2.installed
                /\ r2.pc = "begin" /\ r2.k = 11
                /\ EntryStatus(tasks'[r.tid], 10) = "skipped"
      ]_vars

\* one step of an execution in the port check of step 1: no session attempt is
\* made before a probe finds the port open; the wait loop makes the probes
\* 1..12 (r.attempt probes were made before this one), goes to the first
\* session attempt as soon as one finds the port open, and raises the
\* unreachable error after the twelfth found it closed; the except clause
\* then fails the row and the entry of step 1
PortWaitStep(r, r2, row2) ==
    /\ r.pc \in {"s1_port", "s1_wait"} => r.ssh = "none" /\ r.nconn = 0
    /\ r.pc = "s1_port" =>
          \/ r2.pc = "s1_connect" /\ r2.attempt = 1 /\ r2.nconn = 0
          \/ r2.pc = "s1_wait" /\ r2.attempt = 0 /\ r2.ssh = "none"
    /\ r.pc = "s1_wait" =>
          /\ r.attempt \in 0..(PortWaitProbes - 1)
          /\ \/ r2.pc = "s1_connect" /\ r2.attempt = 1 /\ r2.nconn = 0
             \/ /\ r2.pc = "s1_wait"
                /\ r2.attempt = r.attempt + 1
                /\ r2.attempt < PortWaitProbes
                /\ r2.ssh = "none"
             \/ /\ r2.pc = "h_save"
                /\ r.attempt = PortWaitProbes - 1
                /\ r2.err = E_unreachable
                /\ r2.errstep = 1
                /\ r2.ssh = "none" /\ r2.nconn = 0
    /\ (r.pc = "h_save" /\ r.err = E_unreachable) => row2.status = "failed"
    /\ (r.pc = "h_step" /\ r.err = E_unreachable) =>
          /\ EntryStatus(r2.task, 1) = "failed"
          /\ Len(r2.task.steps) = 1
          /\ r2.nconn = 0

\* C29: when the first TCP probe of the SSH port fails the port is probed
\* again at most 12 times; if none of the 12 probes succeeds the run fails in
\* step 1 without a session attempt, and the first probe that succeeds ends
\* the polling and starts the session attempts
C29_PortWaitBounded ==
    [][ \A w \in Workers :
          run'[w] # run[w] => PortWaitStep(run[w], run'[w], tasks'[run[w].tid])
      ]_vars

\* an execution is about to make the twelfth probe of the wait loop
C29_Witness ==
    \E w \in Workers :
        /\ run[w].pc = "s1_wait"
        /\ run[w].attempt = PortWaitProbes - 1

\* one step of an execution in the readiness loop of step 9 (r.attempt probes
\* were made before this one): the loop makes the probes 1..24, the first probe
\* that answers ready closes the entry of step 9 as success and passes to the
\* boundary of step 10, the twenty-fourth that answers not ready raises, and a
\* probe that times out raises the timeout; the except clause then fails the
\* row and the entry of step 9, after which the ledger ends with step 9
ReadyStep(r, r2, row2) ==
    /\ r.pc = "s9_probe" =>
          /\ r.attempt \in 0..(ReadyProbes - 1)
          /\ \/ /\ r2.pc = "s9_probe"
                /\ r2.attempt = r.attempt + 1
                /\ r2.attempt < ReadyProbes
             \/ /\ r2.pc = "begin" /\ r2.k = 10
                /\ EntryStatus(r2.task, 9) = "success"
             \/ /\ r2.pc = "h_save"
                /\ r2.errstep = 9
                /\ \/ r2.err = E_ready /\ r.attempt = ReadyProbes - 1
                   \/ r2.err # E_ready /\ SubSeq(r2.err, 1, Len(E_cmd_timeout)) = E_cmd_timeout
    /\ (r.pc = "h_save" /\ r.err = E_ready) => row2.status = "failed"
    /\ (r.pc = "h_step" /\ r.err = E_ready) =>
          /\ EntryStatus(r2.task, 9) = "failed"
          /\ Len(r2.task.steps) = 9
          /\ r2.pc = "finally"

EntryMessage(t, k) ==
    IF \E i \in 1..Len(t.steps) : t.steps[i].step = k
    THEN t.steps[CHOOSE i \in 1..Len(t.steps) : t.steps[i].step = k].message
    ELSE ""

\* one step of an execution in step 7 (r.idx is the image at hand): the loop
\* starts at image 1; before a pull the entry of step 7 is rewritten to name
\* the image; a pull that returns passes to the next image in list order, or
\* ends the step after the seventh; a pull that raises reaches the except
\* clause, which fails the row, and no image is pulled afterwards
PullStep(r, r2, row2) ==
    /\ (r.pc = "begin" /\ r2.pc = "s7_check") => r2.idx = 1
    /\ r.pc = "s7_check" =>
          /\ r.idx \in 1..Len(Images)
          /\ \/ r2.pc = "s7_pull" /\ r2.idx = r.idx
             \/ r2.pc = "finally" /\ r2.exit = "return"
    /\ r2.pc = "s7_pull" =>
          /\ EntryStatus(row2, 7) = "running"
          /\ EntryMessage(row2, 7) = "Pulling " \o Images[r2.idx]
    /\ r.pc = "s7_pull" =>
          \/ r2.pc = "s7_check" /\ r2.idx = r.idx + 1 /\ r.idx < Len(Images)
          \/ r2.pc = "begin" /\ r2.k = 8 /\ r.idx = Len(Images)
          \/ r2.pc = "h_save" /\ r2.errstep = 7
    /\ (r.pc = "h_save" /\ r.errstep = 7) => row2.status = "failed"
    /\ r.pc \in HandlerPcs \cup {"finally"} => r2.pc \notin {"s7_check", "s7_pull"}

IsPrefix(a, b) == Len(a) <= Len(b) /\ SubSeq(b, 1, Len(a)) = a

\* C32: every value of the log that is saved to a row extends the value saved
\* before it: no step of an execution (ledger write, log write, except clause)
\* removes or rewrites a line that was logged; only the retry reset empties
\* the log
C32_LogOnlyGrows ==
    [][ \A tid \in DOMAIN tasks :
          \/ IsPrefix(tasks[tid].log_output, tasks'[tid].log_output)
          \/ nRetry' # nRetry /\ tasks'[tid].log_output = <<>>
      ]_vars

\* C33: the write of the resolver of a run that succeeds creates a device row
\* only if no row has the MAC reported by the device and no row has the
\* address of the target; when a row has the MAC, the row that is written is a
\* row with the MAC even if another row has the address; and the write
\* changes the number of device rows by at most one
C33_CreateOnlyWithoutMatch ==
    [][ \A w \in Workers :
          LET r == run[w]
              byMac == IF r.host_mac = "" THEN {} ELSE ByMac(players, r.host_mac)
              byUrl == ByUrl(players, Url(r.task.ip_address))
          IN  (r.pc = "resolve_write" /\ run'[w].pc = "finish") =>
                /\ Len(players') \in {Len(players), Len(players) + 1}
                /\ Len(players') = Len(players) + 1 => (byMac = {} /\ byUrl = {})
                /\ byMac # {} => run'[w].found \in byMac
                /\ (byMac = {} /\ byUrl # {}) => run'[w].found \in byUrl
      ]_vars

---------------------------------------------------------------------------
(* The retry view on its own: requests against rows in every status *)

MaxRetryCalls == 2

\* rows as the orchestrator leaves them: not started, inside step 1, ended
\* with success after step 12, failed in step 1
RowInStatus(st, ip) ==
    LET entry(s, m) == << StepEntry(1, "ssh_connect", s, m) >>
        started == [NewTask(ip, "") EXCEPT !.current_step = 1,
                                           !.log_output = << LogLine(1, 1, "") >>]
    IN  CASE st = "pending" -> NewTask(ip, "")
          [] st = "running" ->
                [started EXCEPT !.status = "running",
                                !.steps = entry("running", "Connecting via SSH...")]
          [] st = "success" ->
                [TaskAfterStep12(ip, 1, "") EXCEPT !.status = "success", !.player = 1]
          [] OTHER ->
                [started EXCEPT !.status = "failed",
                                !.error_message = Truncate(E_auth, ErrFieldLen),
                                !.steps = entry("failed", Truncate(E_auth, StepMsgLen)),
                                !.log_output = Append(@, LogLine(1, 1, "ERROR: " \o E_auth))]

Statuses == {"pending", "running", "success", "failed"}

\* the body of a retry request: no ssh_password field, a blank one, a password
PasswordInputs == {"absent", "", "raspberry"}

\* provision_serializers.py lines 47-48: ssh_password is required and may not
\* be blank
ProvisionRetrySerializer_is_valid(pw) == pw \notin {"absent", ""}

\* the same view without the check of lines 71-75
provision_retryAnyStatus(tid, pw) ==
    /\ harness.calls < MaxRetryCalls
    /\ LET answer(a) == harness' = [calls |-> harness.calls + 1, tid |-> tid,
                                    pw |-> pw, answer |-> a]
       IN  IF tid \notin DOMAIN tasks
           THEN answer("404") /\ UNCHANGED <<tasks, queue>>
           ELSE IF ~ProvisionRetrySerializer_is_valid(pw)
           THEN answer("400 ssh_password") /\ UNCHANGED <<tasks, queue>>
           ELSE /\ answer("200")
                /\ tasks' = [tasks EXCEPT ![tid] = ResetTask(@)]
                /\ queue' = Append(queue, [tid |-> tid, fm |-> FmUrl])
    /\ UNCHANGED <<players, run, nStarted, cancels, nRetry, bulks, bulkq>>

\* provision_views.py lines 59-93: the view, with its answer
provision_retry(tid, pw) ==
    /\ harness.calls < MaxRetryCalls
    /\ LET answer(a) == harness' = [calls |-> harness.calls + 1, tid |-> tid,
                                    pw |-> pw, answer |-> a]
       IN  IF tid \notin DOMAIN tasks
           THEN answer("404") /\ UNCHANGED <<tasks, queue>>
           ELSE IF tasks[tid].status # "failed"
           THEN answer("400 Only failed tasks can be retried.") /\ UNCHANGED <<tasks, queue>>
           ELSE IF ~ProvisionRetrySerializer_is_valid(pw)
           THEN answer("400 ssh_password") /\ UNCHANGED <<tasks, queue>>
           ELSE /\ answer("200")
                /\ tasks' = [tasks EXCEPT ![tid] = ResetTask(@)]
                /\ queue' = Append(queue, [tid |-> tid, fm |-> FmUrl])
    /\ UNCHANGED <<players, run, nStarted, cancels, nRetry, bulks, bulkq>>

InitRetryView ==
    /\ \E s1, s2 \in Statuses :
          tasks = << RowInStatus(s1, "10.0.0.5"), RowInStatus(s2, "10.0.0.6") >>
    /\ players = << Player("Hall", "10.0.0.5", MacA) >>
    /\ queue = <<>>
    /\ run = [w \in Workers |-> Idle]
    /\ nStarted = 0
    /\ cancels = <<>>
    /\ nRetry = 0
    /\ harness = [calls |-> 0, tid |-> 0, pw |-> "absent", answer |-> ""]
    /\ bulks = <<>>
    /\ bulkq = <<>>

NextRetryView == \E tid \in 1..3, pw \in PasswordInputs : provision_retry(tid, pw)

SpecRetryView == InitRetryView /\ [][NextRetryView]_vars

\* C34: a retry request for a row whose status is not failed is answered with
\* an error, changes no field of any row and queues no execution; the same
\* holds for a retry request for a failed row that carries no password
C34_RetryRejected ==
    [][ ( /\ harness'.calls = harness.calls + 1
          /\ harness'.tid \in DOMAIN tasks
          /\ \/ tasks[harness'.tid].status # "failed"
             \/ harness'.pw \in {"absent", ""} ) =>
            /\ SubSeq(harness'.answer, 1, 3) = "400"
            /\ tasks' = tasks
            /\ queue' = queue
      ]_vars

\* a retry request with a password for a row with status success was refused
\* and the row still has its device reference
C34_Witness ==
    /\ harness.calls > 0
    /\ harness.tid \in DOMAIN tasks
    /\ harness.pw = "raspberry"
    /\ harness.answer = "400 Only failed tasks can be retried."
    /\ tasks[harness.tid].status = "success"
    /\ tasks[harness.tid].player = 1
    /\ queue = <<>>

---------------------------------------------------------------------------
(* Provisioning requests and the executions they queue, up to the port check *)

MaxRequests == 2

RequestAddresses == TargetAddresses \cup {"127.0.0.1"}

\* provision_serializers.py lines 15-19
IsLoopback(ip) == SubSeq(ip, 1, 4) = "127."

\* provision_serializers.py lines 21-28: is a row with this address running
RunningFor(rows, ip) ==
    \E i \in DOMAIN rows : rows[i].ip_address = ip /\ rows[i].status = "running"

\* provision_views.py lines 19-42: the view, with its answer
provision_create(ip) ==
    /\ harness.calls < MaxRequests
    /\ IF IsLoopback(ip) \/ RunningFor(tasks, ip)
       THEN /\ harness' = [calls |-> harness.calls + 1, answer |-> "400"]
            /\ UNCHANGED <<tasks, queue>>
       ELSE /\ harness' = [calls |-> harness.calls + 1, answer |-> "201"]
            /\ tasks' = Append(tasks, NewTask(ip, ""))
            /\ queue' = Append(queue, [tid |-> Len(tasks) + 1, fm |-> FmUrl])
    /\ UNCHANGED <<players, run, nStarted, cancels, nRetry, bulks, bulkq>>

InitCreate ==
    /\ tasks = <<>>
    /\ players = <<>>
    /\ queue = <<>>
    /\ run = [w \in Workers |-> Idle]
    /\ nStarted = 0
    /\ cancels = <<>>
    /\ nRetry = 0
    /\ harness = [calls |-> 0, answer |-> ""]
    /\ bulks = <<>>
    /\ bulkq = <<>>

PortCheckSteps(w) ==
    \/ StartRun(w)
    \/ S1Begin(w) \/ S1Port(w) \/ S1Wait(w)
    \/ HSave(w) \/ HLog(w) \/ HStep(w) \/ Finally(w) \/ WorkerReturn(w)

NextCreate ==
    \/ \E ip \in RequestAddresses : provision_create(ip)
    \/ \E w \in Workers : PortCheckSteps(w)

SpecCreate == InitCreate /\ [][NextCreate]_vars

\* C35: no two rows with the same target address are running at the same
\* time, whatever the order of the requests and of the queued executions
C35_OneRunningPerAddress ==
    \A i, j \in DOMAIN tasks :
        ( /\ tasks[i].ip_address = tasks[j].ip_address
          /\ tasks[i].status = "running"
          /\ tasks[j].status = "running" ) => i = j

\* the ledger of the task object t has the twelve steps, each success or
\* skipped
AllStepsDone(t) ==
    /\ Len(t.steps) = TotalSteps
    /\ \A i \in 1..Len(t.steps) : t.steps[i].status \in {"success", "skipped"}

\* C36: an execution whose twelve steps all ended success or skipped has, when
\* it returns, left the row with status success and a device reference,
\* whatever device rows existed
C36_StepsDoneMeansSuccess ==
    \A w \in Workers :
        (run[w].pc = "done" /\ AllStepsDone(run[w].task)) =>
            /\ tasks[run[w].tid].status = "success"
            /\ tasks[run[w].tid].player # NoPlayer

\* C37: the device rows are created or changed only by the write of the
\* resolver, and the execution that made that write goes on to save status
\* success; an execution that ends in the except clause has changed no device
\* row and leaves the device reference of its row null
C37_FailedRunLeavesDevices ==
    [][ /\ players' # players =>
             \E w \in Workers : run[w].pc = "resolve_write" /\ run'[w].pc = "finish"
        /\ \A w \in Workers :
             /\ (run[w].pc = "resolve_write" /\ run'[w].pc = "h_save") => players' = players
             /\ (run[w].pc = "finish" /\ run'[w] # run[w]) =>
                   /\ run'[w].pc = "finally" /\ run'[w].exit = "ok"
                   /\ tasks'[run[w].tid].status = "success"
             /\ ( /\ run'[w].pc \in {"finally", "done"}
                  /\ run'[w].exit = "error"
                  /\ tasks'[run'[w].tid].status = "failed" ) =>
                    tasks'[run'[w].tid].player = NoPlayer
      ]_vars

\* C38: in every state, a row with status success has a device reference and
\* a ledger of exactly the steps 1 to 12, each success or skipped
C38_SuccessIsComplete ==
    \A tid \in DOMAIN tasks :
        tasks[tid].status = "success" =>
            /\ tasks[tid].player # NoPlayer
            /\ [i \in 1..Len(tasks[tid].steps) |-> tasks[tid].steps[i].step]
                  = [i \in 1..TotalSteps |-> i]
            /\ AllStepsDone(tasks[tid])

\* C39: when an execution has returned because it found the row marked failed
\* (at a step boundary, or between two pulls of step 7), the ledger of the row
\* has no entry with status running
C39_ReturnLeavesNoRunning ==
    \A w \in Workers :
        (run[w].pc = "done" /\ run[w].exit = "return") =>
            NoRunningEntry(tasks[run[w].tid])

\* the remote-shell password handed to the execution (the ssh_password
\* argument); it reaches the device in the connect call and on the standard
\* input of sudo (cmd_to_run, line 87), never in a text the function builds
SshPassword == "raspberry"

Secrets == {TsAuthKey, SshPassword}

\* sub in s
Contains(s, sub) ==
    \E i \in 1..(Len(s) - Len(sub) + 1) : SubSeq(s, i, i + Len(sub) - 1) = sub

PersistedTexts(t) ==
    {t.error_message}
        \cup {t.log_output[j].text : j \in 1..Len(t.log_output)}
        \cup {t.steps[k].message : k \in 1..Len(t.steps)}

\* C40: neither the remote-shell password nor the VPN auth key occurs in the
\* saved log, in a ledger message or in the error message of any row
C40_NoSecretPersisted ==
    \A i \in 1..Len(tasks) : \A s \in PersistedTexts(tasks[i]) :
        \A secret \in Secrets : ~Contains(s, secret)

====
